---- MODULE Spec2Model ----
(***************************************************************************)
(* Model of the endpoint-link RPC protocol engine: the exposer             *)
(* (src/expose.ts), the callable caller (src/unnamed/part_019), the        *)
(* method-bag caller (src/wrap.ts), the readiness handshake and the        *)
(* MessagePort-like channel that connects them.                            *)
(*                                                                         *)
(* One step of the model is one task of the JavaScript event loop: a       *)
(* synchronous API call, the delivery of one message event, the firing of  *)
(* one abort signal or the settling of one asynchronous handler, each      *)
(* together with the microtasks it schedules.                              *)
(***************************************************************************)
EXTENDS Integers, Sequences, FiniteSets, TLC

(***************************************************************************)
(* Bounds of the model.                                                    *)
(***************************************************************************)
\* number of calls issued through the caller API
MaxCalls == 2
\* number of calls to throwing handlers
MaxThrowCalls == 2
\* number of calls made while a third party posts frames
MaxNoiseCalls == 2
\* number of calls made when both caller surfaces are compared
MaxSurfaceCalls == 2
\* number of frames a third party posts straight onto the ports
MaxInject == 1
\* number of calls made while a third party posts frames to the exposer
MaxExposerNoiseCalls == 1
\* number of calls made when eventual settlement is examined
MaxLiveCalls == 2
\* number of calls made when the exposer side is examined in full
MaxExposerCalls == 2
\* number of calls made when the caller meets failing signals and posts
MaxFaultCalls == 2
\* number of calls the method-bag caller makes on a failing endpoint
MaxBagFaultCalls == 2
\* number of calls made with argument lists of every kind
MaxArgCalls == 2
\* number of calls made around the disposal of the exposer
MaxDisposeCalls == 2
\* number of messageerror events on the exposer's endpoint
MaxMessageErrors == 2
\* number of calls made after the readiness handshake
MaxReadyCalls == 1
\* number of calls made when nothing is disposed and every handler settles
MaxWellCalls == 2
\* number of calls made when the caller's pending map is examined
MaxPendingCalls == 2
\* number of calls made when CallFrames with a repeated id reach the exposer
MaxDuplicateCalls == 1
\* number of calls made with random sources of every kind
MaxRandomCalls == 2

(***************************************************************************)
(* JavaScript values that cross the model: tagged records, one field name  *)
(* per tag so that values of different types compare unequal.              *)
(***************************************************************************)
Undefined == [t |-> "undefined"]
Null == [t |-> "null"]
Num(n) == [t |-> "number", n |-> n]
Str(s) == [t |-> "string", s |-> s]
\* new Error(message)
Err(m) == [t |-> "Error", message |-> m]
\* the empty array []: an object, hence truthy, whose string form is ""
EmptyArray == [t |-> "array", len |-> 0]

\* an object with a field named then: a function (a promise, a thenable), or
\* something that cannot be called
Thenable == [t |-> "object", then |-> "function"]
HasThenField == [t |-> "object", then |-> "string"]

\* ToBoolean(v)
Truthy(v) ==
  CASE v.t = "undefined" -> FALSE
    [] v.t = "null" -> FALSE
    [] v.t = "number" -> v.n # 0
    [] v.t = "string" -> v.s # ""
    [] OTHER -> TRUE

\* String(v)
JSString(v) ==
  CASE v.t = "undefined" -> "undefined"
    [] v.t = "null" -> "null"
    [] v.t = "number" -> ToString(v.n)
    [] v.t = "string" -> v.s
    [] v.t = "Error" -> IF v.message = "" THEN "Error" ELSE "Error: " \o v.message
    [] v.t = "array" -> ""
    [] OTHER -> "[object Object]"

(***************************************************************************)
(* Protocol frames (src/unnamed/part_011).  A frame is a record holding    *)
(* exactly the fields the sender set; a field that is absent reads as      *)
(* undefined.                                                              *)
(***************************************************************************)
CallMsg(id, name, args) == [id |-> id, kind |-> "call", name |-> name, args |-> args]
ResultOk(id, v) == [id |-> id, kind |-> "result", result |-> v]
ResultErr(id, e) == [id |-> id, kind |-> "result", error |-> e]
CancelMsg(id) == [id |-> id, kind |-> "cancel", idRef |-> id]
ReadyMsg == [kind |-> "ready"]

\* the payload is a value such as null rather than an object with fields
IsValue(d) == "t" \in DOMAIN d
\* !data
Falsy(d) == IsValue(d) /\ ~Truthy(d)
Has(d, f) == ~IsValue(d) /\ f \in DOMAIN d
\* data.kind === k
KindIs(d, k) == Has(d, "kind") /\ d.kind = k


(***************************************************************************)
(* The handler map given to expose.  It is the map of the repository's     *)
(* tests and README, plus a handler that throws a truthy value whose       *)
(* string form is empty.                                                   *)
(***************************************************************************)
Handlers == {"add", "mul", "boom", "throwsNull", "throwsUndefined", "throwsEmpty", "longTask"}

\* a handler whose promise settles in a later task than the one that invoked it
IsAsync(name) == name = "longTask"

Arg(args, i) == IF i <= Len(args) THEN args[i] ELSE Undefined

NumOf(v) == IF v.t = "number" THEN v.n ELSE 0

\* what a handler that settles within the invoking task does with its arguments
RunHandler(name, args) ==
  CASE name = "add" -> [type |-> "return", v |-> Num(NumOf(Arg(args, 1)) + NumOf(Arg(args, 2)))]
    [] name = "mul" -> [type |-> "return", v |-> Num(NumOf(Arg(args, 1)) * NumOf(Arg(args, 2)))]
    [] name = "boom" -> [type |-> "throw", v |-> Err("boom")]
    [] name = "throwsNull" -> [type |-> "throw", v |-> Null]
    [] name = "throwsUndefined" -> [type |-> "throw", v |-> Undefined]
    [] OTHER -> [type |-> "throw", v |-> EmptyArray]

\* how an asynchronous handler can settle: it returns, or it rejects
AsyncOutcomes ==
  { [type |-> "return", v |-> Str("done")],
    [type |-> "throw", v |-> Err("stopped")] }

\* the calls a client makes: method name and argument array
CallInputs ==
  { <<"add", <<Num(1), Num(2)>> >>,
    <<"mul", <<Num(2), Num(3)>> >>,
    <<"boom", <<Num(1)>> >>,
    <<"throwsNull", <<>> >>,
    <<"throwsUndefined", <<>> >>,
    <<"throwsEmpty", <<>> >>,
    <<"longTask", <<>> >>,
    <<"nonExistent", <<>> >> }

\* genId(): the n-th token drawn; tokens are practically never repeated
genId(n) == "id" \o ToString(n)

\* an id no call of this caller carries
ForeignId == "unknown-id-12345"

\* the map key an absent id reads as
NoId == "undefined"

\* frames a third party can post to the caller's port
CallerNoise ==
  { Null, [kind |-> "unknown"], [kind |-> "result"],
    ResultOk(ForeignId, Str("should be ignored")),
    ResultErr(ForeignId, "forged"),
    CallMsg(ForeignId, "add", <<>>) }

\* an object with none of the fields the listeners read, such as {}
EmptyObject == [extra |-> "ignored"]

\* frames a third party can post to the exposer's port
ExposerNoise ==
  { Null, Undefined, EmptyObject, [kind |-> "unknown"], [kind |-> "call"],
    [kind |-> "call", id |-> ForeignId],
    [kind |-> "call", name |-> "longTask"],
    [kind |-> "cancel"],
    CancelMsg(ForeignId),
    [kind |-> "cancel", id |-> ForeignId] }

VARIABLES
  wrapState,      \* wrap(): "idle", "waiting" (in waitForReady), "ready", "aborted"
  wrapGuard,      \* what waitForReady has armed: "none", "abort" (listener on the
                  \* signal), "timer"
  surface,        \* which caller wrap built: "callable" or "bag"
  disposed,       \* the caller API's disposed flag
  pendingCalls,   \* keys of the caller's pendingCalls map
  calls,          \* every call made so far, by id: inputs, signal, promise
  nextId,         \* number of ids generated so far, plus one
  toExposer,      \* frames posted on the caller's port, not yet delivered
  toCaller,       \* frames posted on the exposer's port, not yet delivered
  exposeState,    \* expose(): "none", "listening", "disposed"
  controllerMap,  \* the exposer's controllerMap: id -> index into invocations
  invocations,    \* every handler invocation so far, in order of acceptance
  injected,       \* number of frames posted by a third party
  wrapEarly,      \* history: wrap started waiting before expose had run
  apiThrows,      \* history: messages of the errors the caller API threw synchronously
                  \* (with the class name in front when it is not Error)
  postBroken,     \* postMessage of the exposer's endpoint throws from now on
  subscription,   \* one subscription made with on() on a port of its own: the
                  \* listener, the AbortController's signal, the messages
                  \* posted and queued, what the handler received, and how
                  \* often the detacher was called
  waitFor,        \* the promise of waitForReady: its timeout in ms (0 when it
                  \* was given a signal), its outcome, and how often its
                  \* resolve or reject was invoked (settles)
  messageErrors   \* messageerror events on the exposer's endpoint: how many were
                  \* dispatched (events) and how many its handler received (handled)

vars == <<wrapState, wrapGuard, surface, disposed, pendingCalls, calls, nextId,
          toExposer, toCaller, exposeState, controllerMap, invocations, injected,
          wrapEarly, apiThrows, postBroken, messageErrors, waitFor, subscription>>

\* what a step of the exposer, and what a step of the caller, leaves alone; the
\* subscription of on() is on a port of its own and belongs to neither side
callerVars == <<wrapState, wrapGuard, surface, disposed, pendingCalls, calls, nextId, wrapEarly,
                apiThrows, waitFor, subscription>>
exposerVars == <<exposeState, controllerMap, invocations, postBroken, messageErrors,
                 subscription>>

Pending == [st |-> "pending"]
Resolved(v) == [st |-> "resolved", v |-> v]
\* rejected with new Error(m), or with a thrown error whose message is m
Rejected(m) == [st |-> "rejected", message |-> m]

Init ==
  /\ wrapState = "idle"
  /\ wrapGuard = "none"
  /\ surface = "callable"
  /\ disposed = FALSE
  /\ pendingCalls = {}
  /\ calls = <<>>
  /\ nextId = 1
  /\ toExposer = <<>>
  /\ toCaller = <<>>
  /\ exposeState = "none"
  /\ controllerMap = <<>>
  /\ invocations = <<>>
  /\ injected = 0
  /\ wrapEarly = FALSE
  /\ apiThrows = {}
  /\ postBroken = FALSE
  /\ messageErrors = [events |-> 0, handled |-> 0]
  /\ waitFor = [timeoutMs |-> 0, outcome |-> Pending, settles |-> 0]
  /\ subscription = [made |-> FALSE, attached |-> FALSE, aborted |-> FALSE, posted |-> 0,
                     queued |-> 0, received |-> 0, removes |-> 0, threw |-> FALSE]


Remove(f, k) == [x \in DOMAIN f \ {k} |-> f[x]]

(***************************************************************************)
(* The exposer: src/expose.ts                                              *)
(***************************************************************************)
\* variant of ErrorString: the thrown value is stringified without a fallback
ErrorString_NoFallback(e) == JSString(e)

\* String(e || "unknown")
ErrorString(e) == JSString(IF Truthy(e) THEN e ELSE Str("unknown"))

\* const { id, name, args = [] } = data
IdOf(d) == IF Has(d, "id") THEN d.id ELSE NoId
NameOf(d) == IF Has(d, "name") THEN d.name ELSE "undefined"
ArgsOf(d) == IF Has(d, "args") THEN d.args ELSE <<>>

\* (data as CancelMsg).idRef ?? (data as any).id
CallIdOf(d) ==
  IF Has(d, "idRef") THEN Str(d.idRef)
  ELSE IF Has(d, "id") THEN Str(d.id)
  ELSE Undefined

\* variant of ResultFor: the catch block does not look at ac.signal.aborted
ResultFor_IgnoresAbort(id, o, aborted) ==
  IF o.type = "return" THEN ResultOk(id, o.v)
  ELSE ResultErr(id, ErrorString(o.v))

\* the ResultFrame posted when a handler invocation settles with outcome o
ResultFor(id, o, aborted) ==
  IF o.type = "return" THEN ResultOk(id, o.v)
  ELSE IF aborted THEN ResultErr(id, "aborted")
  ELSE ResultErr(id, ErrorString(o.v))

\* endpoint.postMessage(frame, []) on the exposer's endpoint: the frame is
\* queued for the caller, unless postMessage throws
PostToCaller(frame) == IF postBroken THEN toCaller ELSE Append(toCaller, frame)

\* variant of NoHandler: the error string leaves out the method name
NoHandler_Unnamed(d) ==
  /\ toCaller' = Append(toCaller, ResultErr(IdOf(d), "no handler"))
  /\ UNCHANGED <<controllerMap, invocations>>

\* const h = handlers[name]; if (!h) { post "no handler"; return; }
NoHandler(d) ==
  /\ toCaller' = PostToCaller(ResultErr(IdOf(d), "no handler: " \o NameOf(d)))
  /\ UNCHANGED <<controllerMap, invocations>>

\* variant of InvokeSync: what a handler throws is not reported
InvokeSync_DropsThrow(d) ==
  LET id == IdOf(d)
      o == RunHandler(NameOf(d), ArgsOf(d))
      reported == o.type = "return" /\ ~postBroken
  IN /\ invocations' = Append(invocations,
          [id |-> id, name |-> NameOf(d), args |-> ArgsOf(d),
           aborted |-> FALSE, st |-> "settled", posts |-> IF reported THEN 1 ELSE 0])
     /\ toCaller' = IF reported THEN Append(toCaller, ResultFor(id, o, FALSE)) ELSE toCaller
     /\ controllerMap' = Remove(controllerMap, id)

\* a handler that settles within the task: invoke, post the result, delete
InvokeSync(d) ==
  LET id == IdOf(d)
      o == RunHandler(NameOf(d), ArgsOf(d))
  IN /\ invocations' = Append(invocations,
          [id |-> id, name |-> NameOf(d), args |-> ArgsOf(d),
           aborted |-> FALSE, st |-> "settled", posts |-> IF postBroken THEN 0 ELSE 1])
     /\ toCaller' = PostToCaller(ResultFor(id, o, FALSE))
     /\ controllerMap' = Remove(controllerMap, id)

\* variant of InvokeAsync: a record that exists for the id is kept
InvokeAsync_KeepsFirst(d) ==
  LET id == IdOf(d)
  IN /\ invocations' = Append(invocations,
          [id |-> id, name |-> NameOf(d), args |-> ArgsOf(d),
           aborted |-> FALSE, st |-> "running", posts |-> 0])
     /\ controllerMap' = [x \in DOMAIN controllerMap \cup {id} |->
                            IF x \in DOMAIN controllerMap THEN controllerMap[x]
                            ELSE Len(invocations) + 1]
     /\ UNCHANGED toCaller

\* a handler that is still running when the task ends: the record stays
InvokeAsync(d) ==
  LET id == IdOf(d)
  IN /\ invocations' = Append(invocations,
          [id |-> id, name |-> NameOf(d), args |-> ArgsOf(d),
           aborted |-> FALSE, st |-> "running", posts |-> 0])
     /\ controllerMap' = [x \in DOMAIN controllerMap \cup {id} |->
                            IF x = id THEN Len(invocations) + 1 ELSE controllerMap[x]]
     /\ UNCHANGED toCaller

OnCall(d) ==
  IF NameOf(d) \notin Handlers THEN NoHandler(d)
  ELSE IF IsAsync(NameOf(d)) THEN InvokeAsync(d)
  ELSE InvokeSync(d)

\* variant of OnCancel: the controller is aborted but its record is kept
OnCancel_KeepsRecord(d) ==
  LET callId == CallIdOf(d)
  IN IF Truthy(callId) /\ callId.s \in DOMAIN controllerMap
     THEN /\ invocations' = [invocations EXCEPT ![controllerMap[callId.s]].aborted = TRUE]
          /\ UNCHANGED <<controllerMap, toCaller>>
     ELSE UNCHANGED <<controllerMap, invocations, toCaller>>

\* variant of OnCancel: the cancel branch answers the call itself
OnCancel_PostsAborted(d) ==
  LET callId == CallIdOf(d)
  IN IF Truthy(callId) /\ callId.s \in DOMAIN controllerMap
     THEN /\ invocations' = [invocations EXCEPT
                               ![controllerMap[callId.s]].aborted = TRUE,
                               ![controllerMap[callId.s]].posts = @ + 1]
          /\ controllerMap' = Remove(controllerMap, callId.s)
          /\ toCaller' = PostToCaller(ResultErr(callId.s, "aborted"))
     ELSE UNCHANGED <<controllerMap, invocations, toCaller>>

\* data.kind === "cancel": abort the controller of the call, if there is one
OnCancel(d) ==
  LET callId == CallIdOf(d)
  IN IF Truthy(callId) /\ callId.s \in DOMAIN controllerMap
     THEN /\ invocations' = [invocations EXCEPT ![controllerMap[callId.s]].aborted = TRUE]
          /\ controllerMap' = Remove(controllerMap, callId.s)
          /\ UNCHANGED toCaller
     ELSE UNCHANGED <<controllerMap, invocations, toCaller>>

\* the listener expose attaches
ExposerListener(d) ==
  IF Falsy(d) THEN UNCHANGED <<controllerMap, invocations, toCaller>>
  ELSE IF KindIs(d, "call") THEN OnCall(d)
  ELSE IF KindIs(d, "cancel") THEN OnCancel(d)
  ELSE UNCHANGED <<controllerMap, invocations, toCaller>>

\* variant of Expose: the ReadyFrame is posted while the listener is not
\* attached yet
Expose_ReadyBeforeListener ==
  /\ exposeState = "none"
  /\ toCaller = <<>>
  /\ wrapState # "ready"
  /\ toCaller' = Append(toCaller, ReadyMsg)
  /\ UNCHANGED <<exposeState, controllerMap, invocations, toExposer, injected, postBroken, messageErrors>>
  /\ UNCHANGED callerVars

\* variant of Expose: readiness is signalled again while the exposer listens
Expose_Repeats ==
  /\ exposeState \in {"none", "listening"}
  /\ exposeState' = "listening"
  /\ toCaller' = Append(toCaller, ReadyMsg)
  /\ UNCHANGED <<controllerMap, invocations, toExposer, injected, postBroken, messageErrors>>
  /\ UNCHANGED callerVars

\* expose(endpoint, handlers): attach the listener, then signalReady
Expose ==
  /\ exposeState = "none"
  /\ exposeState' = "listening"
  /\ toCaller' = Append(toCaller, ReadyMsg)
  /\ UNCHANGED <<controllerMap, invocations, toExposer, injected, postBroken, messageErrors>>
  /\ UNCHANGED callerVars

\* one message event on the exposer's port
ExposerDeliver ==
  /\ toExposer # <<>>
  /\ toExposer' = Tail(toExposer)
  /\ IF exposeState = "listening"
     THEN ExposerListener(Head(toExposer))
     ELSE UNCHANGED <<controllerMap, invocations, toCaller>>
  /\ UNCHANGED <<exposeState, injected, postBroken, messageErrors>>
  /\ UNCHANGED callerVars

\* the promise of a running handler settles: try / catch / finally of the listener
\* variant of HandlerSettle: the record is deleted after a successful post only
HandlerSettle_DeleteAfterPost(i, o) ==
  /\ i \in DOMAIN invocations
  /\ invocations[i].st = "running"
  /\ toCaller' = PostToCaller(ResultFor(invocations[i].id, o, invocations[i].aborted))
  /\ invocations' = [invocations EXCEPT ![i].st = "settled",
                                        ![i].posts = IF postBroken THEN @ ELSE @ + 1]
  /\ controllerMap' = IF postBroken THEN controllerMap
                       ELSE Remove(controllerMap, invocations[i].id)
  /\ UNCHANGED <<exposeState, toExposer, injected, postBroken, messageErrors>>
  /\ UNCHANGED callerVars

\* variant of HandlerSettle: a disposed exposer posts no ResultFrame
HandlerSettle_SilentWhenDisposed(i, o) ==
  /\ i \in DOMAIN invocations
  /\ invocations[i].st = "running"
  /\ toCaller' = IF exposeState = "disposed" THEN toCaller
                 ELSE PostToCaller(ResultFor(invocations[i].id, o, invocations[i].aborted))
  /\ invocations' = [invocations EXCEPT ![i].st = "settled",
                                        ![i].posts = IF postBroken \/ exposeState = "disposed"
                                                     THEN @ ELSE @ + 1]
  /\ controllerMap' = Remove(controllerMap, invocations[i].id)
  /\ UNCHANGED <<exposeState, toExposer, injected, postBroken, messageErrors>>
  /\ UNCHANGED callerVars

\* the promise of a running handler settles: post the result (try/catch) and
\* delete the record (finally), also when the post throws
HandlerSettle(i, o) ==
  /\ i \in DOMAIN invocations
  /\ invocations[i].st = "running"
  /\ toCaller' = PostToCaller(ResultFor(invocations[i].id, o, invocations[i].aborted))
  /\ invocations' = [invocations EXCEPT ![i].st = "settled",
                                        ![i].posts = IF postBroken THEN @ ELSE @ + 1]
  /\ controllerMap' = Remove(controllerMap, invocations[i].id)
  /\ UNCHANGED <<exposeState, toExposer, injected, postBroken, messageErrors>>
  /\ UNCHANGED callerVars

\* the exposer's endpoint stops accepting posts: from now on its
\* postMessage throws
EndpointBreaks ==
  /\ exposeState = "listening"
  /\ ~postBroken
  /\ postBroken' = TRUE
  /\ UNCHANGED <<exposeState, controllerMap, invocations, toExposer, toCaller, injected,
                 messageErrors>>
  /\ UNCHANGED callerVars

\* a message that cannot be deserialized arrives: a messageerror event on
\* the exposer's endpoint, handled by options.onMessageError or the default
\* handler while the listener of onMessageError is attached
ExposerMessageError ==
  /\ messageErrors.events < MaxMessageErrors
  /\ messageErrors' = [events |-> messageErrors.events + 1,
                       handled |-> IF exposeState = "listening"
                                   THEN messageErrors.handled + 1
                                   ELSE messageErrors.handled]
  /\ UNCHANGED <<exposeState, controllerMap, invocations, toExposer, toCaller, injected,
                 postBroken>>
  /\ UNCHANGED callerVars

\* variant of ExposerDispose: disposal aborts the handlers in flight
ExposerDispose_AbortsInFlight ==
  /\ exposeState = "listening"
  /\ exposeState' = "disposed"
  /\ controllerMap' = <<>>
  /\ invocations' = [i \in DOMAIN invocations |->
                       IF invocations[i].st = "running"
                       THEN [invocations[i] EXCEPT !.aborted = TRUE]
                       ELSE invocations[i]]
  /\ UNCHANGED <<toExposer, toCaller, injected, postBroken, messageErrors>>
  /\ UNCHANGED callerVars

\* the disposer expose returns: remove(), removeMessageError(), controllerMap.clear()
ExposerDispose ==
  /\ exposeState = "listening"
  /\ exposeState' = "disposed"
  /\ controllerMap' = <<>>
  /\ UNCHANGED <<invocations, toExposer, toCaller, injected, postBroken, messageErrors>>
  /\ UNCHANGED callerVars


(***************************************************************************)
(* The readiness handshake on the caller side: waitForReady of             *)
(* src/unnamed/part_021, awaited by wrap.  The callable caller passes an   *)
(* optional signal, the method-bag caller a timeout.                       *)
(***************************************************************************)
\* resolve / reject of the promise waitForReady returns: only the first
\* invocation settles it
WaitSettle(w, out) ==
  [w EXCEPT !.outcome = IF @.st = "pending" THEN out ELSE @, !.settles = @ + 1]

\* variant of WrapStart: wrap returns the API without awaiting readiness
WrapStart_NoWait(sig) ==
  /\ wrapState = "idle"
  /\ wrapGuard' = "none"
  /\ wrapState' = "ready"
  /\ wrapEarly' = (exposeState = "none")
  /\ UNCHANGED waitFor
  /\ UNCHANGED <<surface, disposed, pendingCalls, calls, nextId, toExposer, toCaller, injected, apiThrows>>
  /\ UNCHANGED exposerVars

\* wrap(endpoint, {signal}) of the callable caller runs up to its await of
\* waitForReady(endpoint, signal); sig is the state of the signal passed
WrapStart(sig) ==
  /\ wrapState = "idle"
  /\ wrapGuard' = IF sig = "idle" THEN "abort" ELSE "none"
  /\ wrapState' = IF sig = "aborted" THEN "aborted" ELSE "waiting"
  /\ waitFor' = IF sig = "aborted" THEN WaitSettle(waitFor, Rejected("aborted")) ELSE waitFor
  /\ wrapEarly' = (sig # "aborted" /\ exposeState = "none")
  /\ UNCHANGED <<surface, disposed, pendingCalls, calls, nextId, toExposer, toCaller, injected, apiThrows>>
  /\ UNCHANGED exposerVars

\* the signal given to wrap fires while waitForReady is pending
WrapAbort ==
  /\ wrapGuard = "abort"
  /\ wrapGuard' = "none"
  /\ wrapState' = IF wrapState = "waiting" THEN "aborted" ELSE wrapState
  /\ waitFor' = WaitSettle(waitFor, Rejected("aborted"))
  /\ UNCHANGED <<surface, disposed, pendingCalls, calls, nextId, toExposer, toCaller, injected, wrapEarly, apiThrows>>
  /\ UNCHANGED exposerVars

\* wrap(endpoint, methodNames, timeoutMs) of the method-bag caller runs up
\* to its await of waitForReady(endpoint, timeoutMs)
WrapBag(timeoutMs) ==
  /\ wrapState = "idle"
  /\ surface' = "bag"
  /\ wrapGuard' = "timer"
  /\ wrapState' = "waiting"
  /\ waitFor' = [waitFor EXCEPT !.timeoutMs = timeoutMs]
  /\ wrapEarly' = (exposeState = "none")
  /\ UNCHANGED <<disposed, pendingCalls, calls, nextId, toExposer, toCaller, injected, apiThrows>>
  /\ UNCHANGED exposerVars

\* timeoutMs = 5000
DefaultTimeoutMs == 5000

\* wrap(endpoint, methodNames) with the default timeout
WrapStartBag == WrapBag(DefaultTimeoutMs)

\* variant of TimeoutMessage: the message names the default timeout
TimeoutMessage_Default(timeoutMs) ==
  "Endpoint readiness timeout after " \o ToString(DefaultTimeoutMs) \o "ms"

\* `Endpoint readiness timeout after ${timeoutMs}ms`
TimeoutMessage(timeoutMs) ==
  "Endpoint readiness timeout after " \o ToString(timeoutMs) \o "ms"

\* the timer of waitForReady(endpoint, timeoutMs) elapses
WrapTimeout ==
  /\ wrapGuard = "timer"
  /\ wrapGuard' = "none"
  /\ wrapState' = IF wrapState = "waiting" THEN "timedout" ELSE wrapState
  /\ waitFor' = WaitSettle(waitFor, Rejected(TimeoutMessage(waitFor.timeoutMs)))
  /\ UNCHANGED <<surface, disposed, pendingCalls, calls, nextId, toExposer, toCaller, injected, wrapEarly, apiThrows>>
  /\ UNCHANGED exposerVars

\* the listener of waitForReady: true when the frame is a ReadyFrame
SeesReady(d) == ~Falsy(d) /\ KindIs(d, "ready")

(***************************************************************************)
(* What both callers share: the promise of a call and the callbacks stored *)
(* for it in the pending map.                                              *)
(***************************************************************************)
\* the promise's own resolve / reject: only the first invocation settles
Settle(c, out) ==
  [c EXCEPT !.outcome = IF @.st = "pending" THEN out ELSE @,
            !.settles = @ + 1]

\* variant of SettleStored: an exception of removeEventListener is not caught
SettleStored_Propagates(c, out) ==
  CASE c.entry = "plain" -> Settle(c, out)
    [] c.entry = "wrapped" ->
         IF c.hostile THEN [c EXCEPT !.threw = TRUE]
         ELSE [Settle(c, out) EXCEPT !.listener = FALSE]
    [] OTHER -> [c EXCEPT !.listener = FALSE, !.threw = TRUE]

\* the callbacks stored in the pending map.  "plain": the promise's own;
\* "wrapped": removeEventListener (errors swallowed), then the promise's
\* own; "broken": wrappers around an entry that was not there, which throw
SettleStored(c, out) ==
  CASE c.entry = "plain" -> Settle(c, out)
    [] c.entry = "wrapped" -> [Settle(c, out) EXCEPT !.listener = (c.hostile)]
    [] OTHER -> [c EXCEPT !.listener = FALSE, !.threw = TRUE]

\* variant of ResultOutcome: the listener reads a field the frame lacks
ResultOutcome_NoValue(d) ==
  IF Has(d, "error") /\ d.error # ""
  THEN Rejected(d.error)
  ELSE Resolved(Undefined)

\* what the result listener settles the pending call with
ResultOutcome(d) ==
  IF Has(d, "error") /\ d.error # ""
  THEN Rejected(d.error)
  ELSE Resolved(IF Has(d, "result") THEN d.result ELSE Undefined)

\* sm is the signal passed: "none", "idle", "aborted", or "hostile", an idle
\* signal whose removeEventListener throws (its listener stays attached)
NewCall(input, sm) ==
  [name |-> input[1], args |-> input[2],
   sig |-> IF sm = "hostile" THEN "idle" ELSE sm, hostile |-> (sm = "hostile"),
   preAborted |-> (sm = "aborted"),
   phase |-> "done", entry |-> "plain", listener |-> FALSE, outcome |-> Pending,
   settles |-> 0, callPosted |-> FALSE, cancelPosts |-> 0, threw |-> FALSE,
   abandoned |-> FALSE]

Put(f, k, v) == [x \in DOMAIN f \cup {k} |-> IF x = k THEN v ELSE f[x]]

(***************************************************************************)
(* The callable caller: src/unnamed/part_019                               *)
(***************************************************************************)
\* variant of OnResult: the entry is looked up in a map that keeps settled calls
OnResult_KeepsEntry(d) ==
  IF Falsy(d) \/ ~KindIs(d, "result") \/ IdOf(d) \notin DOMAIN calls
  THEN UNCHANGED <<pendingCalls, calls>>
  ELSE /\ pendingCalls' = pendingCalls \ {IdOf(d)}
       /\ calls' = [calls EXCEPT ![IdOf(d)] = SettleStored(@, ResultOutcome(d))]

\* variant of OnResult: the listener does not look at the kind of the frame
OnResult_AnyKind(d) ==
  IF Falsy(d) \/ IdOf(d) \notin pendingCalls
  THEN UNCHANGED <<pendingCalls, calls>>
  ELSE /\ pendingCalls' = pendingCalls \ {IdOf(d)}
       /\ calls' = [calls EXCEPT ![IdOf(d)] = SettleStored(@, ResultOutcome(d))]

\* variant of OnResult: a result settles whichever pending call is found first
OnResult_AnyPending(d) ==
  IF Falsy(d) \/ ~KindIs(d, "result") \/ IdOf(d) \notin pendingCalls
  THEN UNCHANGED <<pendingCalls, calls>>
  ELSE LET first == CHOOSE id \in pendingCalls : TRUE
       IN /\ pendingCalls' = pendingCalls \ {first}
          /\ calls' = [calls EXCEPT ![first] = SettleStored(@, ResultOutcome(d))]

\* the message listener wrap attaches once ready
OnResult(d) ==
  IF Falsy(d) \/ ~KindIs(d, "result") \/ IdOf(d) \notin pendingCalls
  THEN UNCHANGED <<pendingCalls, calls>>
  ELSE /\ pendingCalls' = pendingCalls \ {IdOf(d)}
       /\ calls' = [calls EXCEPT ![IdOf(d)] = SettleStored(@, ResultOutcome(d))]

\* variant of IssueCall: a post that throws leaves the entry in the pending map
IssueCall_KeepsEntry(input, sm, postThrows) ==
  /\ nextId' = nextId + 1
  /\ LET id == genId(nextId)
         c == NewCall(input, sm)
         stored == [c EXCEPT !.listener = (c.sig = "idle"),
                             !.entry = IF c.sig = "idle" THEN "wrapped" ELSE "plain"]
     IN IF sm = "aborted"
        THEN /\ calls' = Put(calls, id, Settle(c, Rejected("aborted")))
             /\ UNCHANGED <<pendingCalls, toExposer>>
        ELSE IF postThrows
        THEN /\ calls' = Put(calls, id, Settle(stored, Rejected("post failed")))
             /\ pendingCalls' = pendingCalls \cup {id}
             /\ UNCHANGED toExposer
        ELSE /\ calls' = Put(calls, id, [stored EXCEPT !.callPosted = TRUE])
             /\ pendingCalls' = pendingCalls \cup {id}
             /\ toExposer' = Append(toExposer, CallMsg(id, input[1], input[2]))
  /\ UNCHANGED apiThrows

\* the body of call once the disposed check has passed: genId, then the
\* executor of the returned promise.  sm is the state of the signal passed
\* ("none" when no signal is passed), postThrows whether postMessage throws
IssueCall(input, sm, postThrows) ==
  /\ nextId' = nextId + 1
  /\ LET id == genId(nextId)
         c == NewCall(input, sm)
         stored == [c EXCEPT !.listener = (c.sig = "idle"),
                             !.entry = IF c.sig = "idle" THEN "wrapped" ELSE "plain"]
     IN IF sm = "aborted"
        THEN /\ calls' = Put(calls, id, Settle(c, Rejected("aborted")))
             /\ UNCHANGED <<pendingCalls, toExposer>>
        ELSE IF postThrows
        THEN /\ calls' = Put(calls, id, SettleStored(stored, Rejected("post failed")))
             /\ UNCHANGED <<pendingCalls, toExposer>>
        ELSE /\ calls' = Put(calls, id, [stored EXCEPT !.callPosted = TRUE])
             /\ pendingCalls' = pendingCalls \cup {id}
             /\ toExposer' = Append(toExposer, CallMsg(id, input[1], input[2]))
  /\ UNCHANGED apiThrows

\* if (disposed) throw new Error("API has been disposed")
ThrowDisposed ==
  /\ apiThrows' = apiThrows \cup {"API has been disposed"}
  /\ UNCHANGED <<nextId, calls, pendingCalls, toExposer>>

\* arg && typeof arg.then === "function"
IsPromiseLike(arg) == Truthy(arg) /\ "then" \in DOMAIN arg /\ arg.then = "function"

PromiseArgMessage ==
  "TypeError: Promise arguments are not supported. Await promises before passing them as arguments."

\* throw new TypeError("Promise arguments are not supported. ...")
ThrowTypeError ==
  /\ apiThrows' = apiThrows \cup {PromiseArgMessage}
  /\ UNCHANGED <<nextId, calls, pendingCalls, toExposer>>

\* variant of ValidatedCall: the arguments are not looked at
ValidatedCall_NoValidation(input, sm, postThrows) ==
  IssueCall(input, sm, postThrows)

\* the body of call after the disposed check: the arguments are validated
\* before an id is generated
ValidatedCall(input, sm, postThrows) ==
  IF \E k \in DOMAIN input[2] : IsPromiseLike(input[2][k])
  THEN ThrowTypeError
  ELSE IssueCall(input, sm, postThrows)

\* variant of Call: the disposed flag is not looked at
Call_IgnoresDisposed(input, sm, postThrows) ==
  /\ wrapState = "ready"
  /\ surface = "callable"
  /\ ValidatedCall(input, sm, postThrows)
  /\ UNCHANGED <<wrapState, wrapGuard, waitFor, surface, disposed, toCaller, injected, wrapEarly>>
  /\ UNCHANGED exposerVars

\* api(name, args, {signal})
Call(input, sm, postThrows) ==
  /\ wrapState = "ready"
  /\ surface = "callable"
  /\ IF disposed THEN ThrowDisposed ELSE ValidatedCall(input, sm, postThrows)
  /\ UNCHANGED <<wrapState, wrapGuard, waitFor, surface, disposed, toCaller, injected, wrapEarly>>
  /\ UNCHANGED exposerVars

(***************************************************************************)
(* genId of src/gen_id.ts, which both callers import, on a random source:  *)
(* crypto.getRandomValues fills the array with bytes, or throws.           *)
(***************************************************************************)
HexDigits == <<"0", "1", "2", "3", "4", "5", "6", "7", "8", "9", "a", "b", "c", "d", "e", "f">>

\* b.toString(16)
ToString16(b) ==
  IF b < 16 THEN HexDigits[b + 1]
  ELSE HexDigits[(b \div 16) + 1] \o HexDigits[(b % 16) + 1]

\* s.padStart(2, "0")
PadStart2(s) == IF Len(s) < 2 THEN "0" \o s ELSE s

\* Array.from(arr).map(...).join("")
RECURSIVE JoinHex(_)
JoinHex(arr) ==
  IF arr = <<>> THEN "" ELSE PadStart2(ToString16(Head(arr))) \o JoinHex(Tail(arr))

\* a source whose crypto.getRandomValues throws, as in the test of the fallback
NoCrypto == [throws |-> TRUE, bytes |-> <<>>]

\* the random sources a call can meet
RandomSources ==
  { NoCrypto,
    [throws |-> FALSE, bytes |-> <<0, 0, 0, 0, 0, 0, 0, 0>>],
    [throws |-> FALSE, bytes |-> <<1, 35, 69, 103, 137, 171, 205, 239>>] }

\* genId(): the outcome on random source src
GenIdSecure(src) ==
  IF src.throws THEN [type |-> "throw", v |-> Err("Crypto not available")]
  ELSE [type |-> "return", v |-> JoinHex(src.bytes)]

\* an exception thrown by genId() leaves call
ThrowFromGenId(e) ==
  /\ apiThrows' = apiThrows \cup {e.message}
  /\ UNCHANGED <<nextId, calls, pendingCalls, toExposer>>

\* api(name, args, {signal}) with random source src: the disposed check,
\* the validation of the arguments, genId(), then the promise
CallRandom(input, sm, src) ==
  /\ wrapState = "ready"
  /\ surface = "callable"
  /\ IF disposed THEN ThrowDisposed
     ELSE IF \E k \in DOMAIN input[2] : IsPromiseLike(input[2][k]) THEN ThrowTypeError
     ELSE IF GenIdSecure(src).type = "throw" THEN ThrowFromGenId(GenIdSecure(src).v)
     ELSE IssueCall(input, sm, FALSE)
  /\ UNCHANGED <<wrapState, wrapGuard, waitFor, surface, disposed, toCaller, injected, wrapEarly>>
  /\ UNCHANGED exposerVars

\* variant of AbortHandler: the call is rejected but no CancelFrame is posted
AbortHandler_NoCancel(id, postThrows) ==
  IF id \in pendingCalls
  THEN /\ pendingCalls' = pendingCalls \ {id}
       /\ calls' = [calls EXCEPT ![id] =
            [SettleStored(@, Rejected("aborted")) EXCEPT
               !.sig = "aborted", !.listener = FALSE]]
       /\ UNCHANGED toExposer
  ELSE /\ calls' = [calls EXCEPT ![id].sig = "aborted", ![id].listener = FALSE]
       /\ UNCHANGED <<pendingCalls, toExposer>>

\* variant of AbortHandler: the call is rejected but its entry stays in the map
AbortHandler_KeepsEntry(id, postThrows) ==
  IF id \in pendingCalls
  THEN /\ calls' = [calls EXCEPT ![id] =
            [SettleStored(@, Rejected("aborted")) EXCEPT
               !.sig = "aborted",
               !.listener = FALSE,
               !.cancelPosts = IF postThrows THEN @ ELSE @ + 1]]
       /\ toExposer' = IF postThrows THEN toExposer
                       ELSE Append(toExposer, CancelMsg(id))
       /\ UNCHANGED pendingCalls
  ELSE /\ calls' = [calls EXCEPT ![id].sig = "aborted", ![id].listener = FALSE]
       /\ UNCHANGED <<pendingCalls, toExposer>>

\* variant of AbortHandler: the CancelFrame is posted whether or not the call
\* still has its entry in the pending map
AbortHandler_AlwaysCancels(id, postThrows) ==
  /\ toExposer' = IF postThrows THEN toExposer ELSE Append(toExposer, CancelMsg(id))
  /\ IF id \in pendingCalls
     THEN /\ pendingCalls' = pendingCalls \ {id}
          /\ calls' = [calls EXCEPT ![id] =
               [SettleStored(@, Rejected("aborted")) EXCEPT
                  !.sig = "aborted",
                  !.listener = FALSE,
                  !.cancelPosts = IF postThrows THEN @ ELSE @ + 1]]
     ELSE /\ calls' = [calls EXCEPT ![id].sig = "aborted", ![id].listener = FALSE,
                                    ![id].cancelPosts = IF postThrows THEN @ ELSE @ + 1]
          /\ UNCHANGED pendingCalls

\* the abortHandler of a call: runs when the call's signal fires
AbortHandler(id, postThrows) ==
  IF id \in pendingCalls
  THEN /\ pendingCalls' = pendingCalls \ {id}
       /\ calls' = [calls EXCEPT ![id] =
            [SettleStored(@, Rejected("aborted")) EXCEPT
               !.sig = "aborted",
               !.listener = FALSE,
               !.cancelPosts = IF postThrows THEN @ ELSE @ + 1]]
       /\ toExposer' = IF postThrows THEN toExposer
                       ELSE Append(toExposer, CancelMsg(id))
  ELSE /\ calls' = [calls EXCEPT ![id].sig = "aborted", ![id].listener = FALSE]
       /\ UNCHANGED <<pendingCalls, toExposer>>

\* history: the calls whose promise is pending when the API is disposed
Abandon(cs) ==
  [id \in DOMAIN cs |->
     IF cs[id].outcome = Pending THEN [cs[id] EXCEPT !.abandoned = TRUE] ELSE cs[id]]

\* variant of Dispose: the pending map is not cleared
Dispose_KeepsMap ==
  /\ wrapState = "ready"
  /\ surface = "callable"
  /\ disposed' = TRUE
  /\ calls' = Abandon(calls)
  /\ UNCHANGED <<wrapState, wrapGuard, waitFor, surface, pendingCalls, nextId, toExposer, toCaller, injected, wrapEarly, apiThrows>>
  /\ UNCHANGED exposerVars

\* api[Symbol.dispose](): also when the API is disposed already
Dispose ==
  /\ wrapState = "ready"
  /\ surface = "callable"
  /\ disposed' = TRUE
  /\ pendingCalls' = {}
  /\ calls' = Abandon(calls)
  /\ UNCHANGED <<wrapState, wrapGuard, waitFor, surface, nextId, toExposer, toCaller, injected, wrapEarly, apiThrows>>
  /\ UNCHANGED exposerVars

(***************************************************************************)
(* The method-bag caller: src/wrap.ts.  Its call runs an async function    *)
(* that awaits every argument before it looks at the signal and posts.     *)
(***************************************************************************)
\* the message listener of the method-bag caller
OnResultBag(d) ==
  IF Falsy(d) \/ ~KindIs(d, "result") \/ IdOf(d) \notin pendingCalls
  THEN UNCHANGED <<pendingCalls, calls>>
  ELSE /\ calls' = [calls EXCEPT ![IdOf(d)] = SettleStored(@, ResultOutcome(d))]
       /\ pendingCalls' = IF calls[IdOf(d)].entry = "broken" THEN pendingCalls
                          ELSE pendingCalls \ {IdOf(d)}

\* the async function of call, from the end of argument normalisation on;
\* c is the call, pend the replies map, postThrows whether post() throws
\* (both of its attempts fail)
BagSend(id, c, pend, postThrows) ==
  IF c.sig = "aborted"
  THEN IF postThrows
       THEN /\ calls' = Put(calls, id, Settle(c, Rejected("post failed")))
            /\ pendingCalls' = pend \ {id}
            /\ UNCHANGED toExposer
       ELSE /\ calls' = Put(calls, id,
                 Settle([c EXCEPT !.cancelPosts = @ + 1], Rejected("aborted")))
            /\ pendingCalls' = pend \ {id}
            /\ toExposer' = Append(toExposer, CancelMsg(id))
  ELSE LET c1 == IF c.sig = "idle"
                 THEN [c EXCEPT !.listener = TRUE,
                                !.entry = IF id \in pend THEN "wrapped" ELSE "broken"]
                 ELSE c
           pend1 == IF c.sig = "idle" THEN pend \cup {id} ELSE pend
       IN IF postThrows
          THEN /\ calls' = Put(calls, id, Settle(c1, Rejected("post failed")))
               /\ pendingCalls' = pend1 \ {id}
               /\ UNCHANGED toExposer
          ELSE /\ calls' = Put(calls, id, [c1 EXCEPT !.callPosted = TRUE])
               /\ pendingCalls' = pend1
               /\ toExposer' = Append(toExposer, CallMsg(id, c.name, c.args))

\* api.call(name, ...args, signal?): registers the entry, then runs the
\* async function up to its first await (none when there is no argument)
CallBag(input, sm, postThrows) ==
  /\ wrapState = "ready"
  /\ surface = "bag"
  /\ nextId' = nextId + 1
  /\ LET id == genId(nextId)
         c == NewCall(input, sm)
     IN IF Len(input[2]) = 0
        THEN BagSend(id, c, pendingCalls \cup {id}, postThrows)
        ELSE /\ calls' = Put(calls, id, [c EXCEPT !.phase = "normalizing"])
             /\ pendingCalls' = pendingCalls \cup {id}
             /\ UNCHANGED toExposer
  /\ UNCHANGED <<wrapState, wrapGuard, waitFor, surface, disposed, toCaller, injected, wrapEarly, apiThrows>>
  /\ UNCHANGED exposerVars

\* the microtask in which the async function of call resumes
BagContinue(id, postThrows) ==
  /\ id \in DOMAIN calls
  /\ calls[id].phase = "normalizing"
  /\ BagSend(id, [calls[id] EXCEPT !.phase = "done"], pendingCalls, postThrows)
  /\ UNCHANGED <<wrapState, wrapGuard, waitFor, surface, disposed, nextId, toCaller, injected, wrapEarly, apiThrows>>
  /\ UNCHANGED exposerVars

\* onAbort of the method-bag caller: posts the cancel first
OnAbortBag(id, postThrows) ==
  IF postThrows
  THEN /\ calls' = [calls EXCEPT ![id].sig = "aborted", ![id].listener = FALSE,
                                 ![id].threw = TRUE]
       /\ UNCHANGED <<pendingCalls, toExposer>>
  ELSE /\ toExposer' = Append(toExposer, CancelMsg(id))
       /\ IF id \in pendingCalls
          THEN /\ calls' = [calls EXCEPT ![id] =
                    [SettleStored(@, Rejected("aborted")) EXCEPT
                       !.sig = "aborted", !.listener = FALSE, !.cancelPosts = @ + 1]]
               /\ pendingCalls' = IF calls[id].entry = "broken" THEN pendingCalls
                                  ELSE pendingCalls \ {id}
          ELSE /\ calls' = [calls EXCEPT ![id].sig = "aborted", ![id].listener = FALSE,
                                         ![id].cancelPosts = @ + 1]
               /\ UNCHANGED pendingCalls

\* api.close()
CloseBag ==
  /\ wrapState = "ready"
  /\ surface = "bag"
  /\ disposed' = TRUE
  /\ pendingCalls' = {}
  /\ calls' = Abandon(calls)
  /\ UNCHANGED <<wrapState, wrapGuard, waitFor, surface, nextId, toExposer, toCaller, injected, wrapEarly, apiThrows>>
  /\ UNCHANGED exposerVars

(***************************************************************************)
(* Events of the caller's realm.                                           *)
(***************************************************************************)
\* no async function of a call is waiting for its microtask
NoMicrotask == \A id \in DOMAIN calls : calls[id].phase = "done"

\* variant of CallerDeliver: when readiness wins, the timer or abort listener
\* of waitForReady stays armed
CallerDeliver_KeepsGuard ==
  /\ toCaller # <<>>
  /\ NoMicrotask
  /\ toCaller' = Tail(toCaller)
  /\ IF wrapState = "waiting"
     THEN /\ wrapState' = IF SeesReady(Head(toCaller)) THEN "ready" ELSE "waiting"
          /\ waitFor' = IF SeesReady(Head(toCaller))
                        THEN WaitSettle(waitFor, Resolved(Undefined)) ELSE waitFor
          /\ UNCHANGED <<wrapGuard, pendingCalls, calls>>
     ELSE IF wrapState = "ready" /\ ~disposed
     THEN /\ IF surface = "bag" THEN OnResultBag(Head(toCaller))
                                ELSE OnResult(Head(toCaller))
          /\ UNCHANGED <<wrapState, wrapGuard, waitFor>>
     ELSE UNCHANGED <<wrapState, wrapGuard, waitFor, pendingCalls, calls>>
  /\ UNCHANGED <<surface, disposed, nextId, toExposer, injected, wrapEarly, apiThrows>>
  /\ UNCHANGED exposerVars

\* one message event on the caller's port: it reaches the listener of
\* waitForReady, or the result listener while that is attached
CallerDeliver ==
  /\ toCaller # <<>>
  /\ NoMicrotask
  /\ toCaller' = Tail(toCaller)
  /\ IF wrapState = "waiting"
     THEN /\ wrapState' = IF SeesReady(Head(toCaller)) THEN "ready" ELSE "waiting"
          /\ wrapGuard' = IF SeesReady(Head(toCaller)) THEN "none" ELSE wrapGuard
          /\ waitFor' = IF SeesReady(Head(toCaller))
                        THEN WaitSettle(waitFor, Resolved(Undefined)) ELSE waitFor
          /\ UNCHANGED <<pendingCalls, calls>>
     ELSE IF wrapState = "ready" /\ ~disposed
     THEN /\ IF surface = "bag" THEN OnResultBag(Head(toCaller))
                                ELSE OnResult(Head(toCaller))
          /\ UNCHANGED <<wrapState, wrapGuard, waitFor>>
     ELSE UNCHANGED <<wrapState, wrapGuard, waitFor, pendingCalls, calls>>
  /\ UNCHANGED <<surface, disposed, nextId, toExposer, injected, wrapEarly, apiThrows>>
  /\ UNCHANGED exposerVars

\* the signal passed to call id fires (controller.abort())
Abort(id, postThrows) ==
  /\ id \in DOMAIN calls
  /\ calls[id].sig = "idle"
  /\ IF calls[id].listener
     THEN IF surface = "bag" THEN OnAbortBag(id, postThrows)
                             ELSE AbortHandler(id, postThrows)
     ELSE /\ calls' = [calls EXCEPT ![id].sig = "aborted"]
          /\ UNCHANGED <<pendingCalls, toExposer>>
  /\ UNCHANGED <<wrapState, wrapGuard, waitFor, surface, disposed, nextId, toCaller, injected, wrapEarly, apiThrows>>
  /\ UNCHANGED exposerVars

(***************************************************************************)
(* A third party holding a port posts a frame of its own.                  *)
(***************************************************************************)
InjectToCaller(d) ==
  /\ injected < MaxInject
  /\ injected' = injected + 1
  /\ toCaller' = Append(toCaller, d)
  /\ UNCHANGED <<toExposer>>
  /\ UNCHANGED callerVars
  /\ UNCHANGED exposerVars

InjectToExposer(d) ==
  /\ injected < MaxInject
  /\ injected' = injected + 1
  /\ toExposer' = Append(toExposer, d)
  /\ UNCHANGED <<toCaller>>
  /\ UNCHANGED callerVars
  /\ UNCHANGED exposerVars


SignalModes == {"none", "idle", "aborted"}

(***************************************************************************)
(* Spec: one exposer and one callable caller on a connected port pair; the *)
(* client calls returning, long-running and missing handlers.              *)
(***************************************************************************)
Inputs == { in \in CallInputs : in[1] \in {"add", "mul", "longTask", "nonExistent"} }

Next ==
  \/ Expose
  \/ ExposerDeliver
  \/ \E i \in DOMAIN invocations : \E o \in AsyncOutcomes : HandlerSettle(i, o)
  \/ ExposerDispose
  \/ \E sig \in SignalModes : WrapStart(sig)
  \/ WrapAbort
  \/ CallerDeliver
  \/ \E input \in Inputs, sm \in SignalModes : nextId <= MaxCalls /\ Call(input, sm, FALSE)
  \/ \E id \in DOMAIN calls : Abort(id, FALSE)
  \/ Dispose

Spec == Init /\ [][Next]_vars

(***************************************************************************)
(* SpecThrow: the client calls handlers that throw.                        *)
(***************************************************************************)
Throwers == {"boom", "throwsNull", "throwsUndefined", "throwsEmpty"}

ThrowInputs == { in \in CallInputs : in[1] \in Throwers }

NextThrow ==
  \/ Expose
  \/ ExposerDeliver
  \/ ExposerDispose
  \/ \E sig \in SignalModes : WrapStart(sig)
  \/ WrapAbort
  \/ CallerDeliver
  \/ \E input \in ThrowInputs, sm \in SignalModes :
       nextId <= MaxThrowCalls /\ Call(input, sm, FALSE)
  \/ \E id \in DOMAIN calls : Abort(id, FALSE)
  \/ Dispose

SpecThrow == Init /\ [][NextThrow]_vars

(***************************************************************************)
(* SpecNoise: besides the exposer's frames, the caller's port receives     *)
(* frames of a third party: malformed payloads, results and calls with an  *)
(* id of no call, and cancel frames that carry the id of one of its calls  *)
(* (as on an endpoint used in both directions).                            *)
(***************************************************************************)
NoiseInputs == { in \in CallInputs : in[1] = "add" }

EchoNoise == { CancelMsg(id) : id \in DOMAIN calls }

NextNoise ==
  \/ Expose
  \/ ExposerDeliver
  \/ \E sig \in SignalModes : WrapStart(sig)
  \/ CallerDeliver
  \/ \E input \in NoiseInputs, sm \in SignalModes :
       nextId <= MaxNoiseCalls /\ Call(input, sm, FALSE)
  \/ \E id \in DOMAIN calls : Abort(id, FALSE)
  \/ \E d \in CallerNoise \cup EchoNoise : wrapState = "ready" /\ InjectToCaller(d)

SpecNoise == Init /\ [][NextNoise]_vars

(***************************************************************************)
(* SpecSurfaces: the client uses either caller and cancels calls; the      *)
(* endpoint's postMessage may throw when a call is made.                   *)
(***************************************************************************)
SurfaceInputs == { in \in CallInputs : in[1] \in {"add", "longTask"} }

\* every call here is given a signal: one that may fire later, or one that
\* has fired already
SurfaceSignals == {"idle", "aborted"}

NextSurfaces ==
  \/ Expose
  \/ ExposerDeliver
  \/ \E i \in DOMAIN invocations : \E o \in AsyncOutcomes : HandlerSettle(i, o)
  \/ WrapStart("none")
  \/ WrapStartBag
  \/ WrapTimeout
  \/ CallerDeliver
  \/ \E input \in SurfaceInputs, sm \in SurfaceSignals, pt \in BOOLEAN :
       nextId <= MaxSurfaceCalls /\ Call(input, sm, pt)
  \/ \E input \in SurfaceInputs, sm \in SurfaceSignals, pt \in BOOLEAN :
       nextId <= MaxSurfaceCalls /\ CallBag(input, sm, pt)
  \/ \E id \in DOMAIN calls, pt \in BOOLEAN : BagContinue(id, pt)
  \/ \E id \in DOMAIN calls : Abort(id, FALSE)
  \/ Dispose
  \/ CloseBag

SpecSurfaces == Init /\ [][NextSurfaces]_vars

(***************************************************************************)
(* SpecLive: the callable caller and the exposer under the scheduling the  *)
(* event loop guarantees: expose runs, every posted message is eventually  *)
(* dispatched, and (in favour of the caller) every running handler         *)
(* eventually settles.  The client may fire signals and dispose the API.   *)
(***************************************************************************)
LiveInputs == { in \in CallInputs : in[1] \in {"add", "longTask"} }

SettleSome == \E i \in DOMAIN invocations : \E o \in AsyncOutcomes : HandlerSettle(i, o)

NextLive ==
  \/ Expose
  \/ ExposerDeliver
  \/ SettleSome
  \/ WrapStart("none")
  \/ CallerDeliver
  \/ \E input \in LiveInputs, sm \in {"none", "idle"} :
       nextId <= MaxLiveCalls /\ Call(input, sm, FALSE)
  \/ \E id \in DOMAIN calls : Abort(id, FALSE)
  \/ Dispose

SpecLive ==
  /\ Init
  /\ [][NextLive]_vars
  /\ WF_vars(Expose)
  /\ WF_vars(ExposerDeliver)
  /\ WF_vars(CallerDeliver)
  /\ WF_vars(SettleSome)

(***************************************************************************)
(* SpecExposerNoise: the exposer's port receives, besides the caller's     *)
(* frames, frames of a third party: malformed payloads, incomplete call    *)
(* and cancel frames, and cancel frames (with idRef, with the legacy id   *)
(* only, or with an empty idRef next to the id) for ids the exposer has    *)
(* never seen or has seen before.                                          *)
(***************************************************************************)
ExposerNoiseInputs == { in \in CallInputs : in[1] = "longTask" }

EchoCancel ==
  UNION { { CancelMsg(id), [kind |-> "cancel", id |-> id],
            [kind |-> "cancel", id |-> id, idRef |-> ""] } : id \in DOMAIN calls }

NextExposerNoise ==
  \/ Expose
  \/ ExposerDeliver
  \/ SettleSome
  \/ WrapStart("none")
  \/ CallerDeliver
  \/ \E input \in ExposerNoiseInputs :
       nextId <= MaxExposerNoiseCalls /\ Call(input, "idle", FALSE)
  \/ \E id \in DOMAIN calls : Abort(id, FALSE)
  \/ \E d \in ExposerNoise \cup EchoCancel : exposeState = "listening" /\ InjectToExposer(d)

SpecExposerNoise == Init /\ [][NextExposerNoise]_vars

(***************************************************************************)
(* SpecExposer: the exposer's side of a call in full: handlers return or   *)
(* reject with any kind of value, are cancelled while they run, the        *)
(* exposer is disposed, and its endpoint may stop accepting posts.         *)
(***************************************************************************)
ExposerInputs == { in \in CallInputs : in[1] \in {"add", "longTask"} }

\* the values an asynchronous handler rejects with here: an Error, a falsy
\* value, and a truthy value whose string form is empty
ExposerOutcomes ==
  AsyncOutcomes \cup { [type |-> "throw", v |-> Null], [type |-> "throw", v |-> EmptyArray] }

SettleAny == \E i \in DOMAIN invocations : \E o \in ExposerOutcomes : HandlerSettle(i, o)

NextExposer ==
  \/ Expose
  \/ ExposerDeliver
  \/ SettleAny
  \/ EndpointBreaks
  \/ ExposerDispose
  \/ WrapStart("none")
  \/ CallerDeliver
  \/ \E input \in ExposerInputs :
       nextId <= MaxExposerCalls /\ Call(input, "idle", FALSE)
  \/ \E id \in DOMAIN calls : Abort(id, FALSE)

SpecExposer == Init /\ [][NextExposer]_vars

(***************************************************************************)
(* SpecCallerFaults: the callable caller with calls that carry a signal,   *)
(* among them signals whose removeEventListener throws, on an endpoint     *)
(* whose postMessage may throw when a CallFrame or a CancelFrame is posted.*)
(***************************************************************************)
FaultInputs == { in \in CallInputs : in[1] \in {"add", "longTask"} }

FaultSignals == {"idle", "hostile"}

NextCallerFaults ==
  \/ Expose
  \/ ExposerDeliver
  \/ SettleSome
  \/ WrapStart("none")
  \/ CallerDeliver
  \/ \E input \in FaultInputs, sm \in FaultSignals, pt \in BOOLEAN :
       nextId <= MaxFaultCalls /\ Call(input, sm, pt)
  \/ \E id \in DOMAIN calls, pt \in BOOLEAN : Abort(id, pt)

SpecCallerFaults == Init /\ [][NextCallerFaults]_vars

(***************************************************************************)
(* SpecBagFaults: the method-bag caller with calls that carry a signal, on *)
(* an endpoint whose postMessage may throw when the signal fires.          *)
(***************************************************************************)
BagFaultInputs == { in \in CallInputs : in[1] = "longTask" }

NextBagFaults ==
  \/ Expose
  \/ ExposerDeliver
  \/ SettleSome
  \/ WrapStartBag
  \/ CallerDeliver
  \/ \E input \in BagFaultInputs :
       nextId <= MaxBagFaultCalls /\ CallBag(input, "idle", FALSE)
  \/ \E id \in DOMAIN calls, pt \in BOOLEAN : Abort(id, pt)

SpecBagFaults == Init /\ [][NextBagFaults]_vars

(***************************************************************************)
(* SpecArgs: the callable caller is given argument lists that hold a       *)
(* promise, an object with a then field that is no function, falsy values, *)
(* or plain numbers.                                                       *)
(***************************************************************************)
ArgInputs ==
  { <<"add", <<Num(1), Num(2)>> >>,
    <<"add", <<Thenable, Num(2)>> >>,
    <<"add", <<Num(1), Thenable>> >>,
    <<"add", <<HasThenField, Null>> >> }

NextArgs ==
  \/ Expose
  \/ ExposerDeliver
  \/ WrapStart("none")
  \/ CallerDeliver
  \/ \E input \in ArgInputs, sm \in {"none", "idle"} :
       nextId <= MaxArgCalls /\ Call(input, sm, FALSE)
  \/ \E id \in DOMAIN calls : Abort(id, FALSE)
  \/ Dispose

SpecArgs == Init /\ [][NextArgs]_vars

(***************************************************************************)
(* SpecExposerDispose: the exposer is disposed at any moment while calls   *)
(* and cancels reach it and messageerror events occur on its endpoint.     *)
(***************************************************************************)
DisposeInputs == { in \in CallInputs : in[1] \in {"add", "longTask"} }

NextExposerDispose ==
  \/ Expose
  \/ ExposerDeliver
  \/ SettleSome
  \/ ExposerMessageError
  \/ ExposerDispose
  \/ WrapStart("none")
  \/ CallerDeliver
  \/ \E input \in DisposeInputs :
       nextId <= MaxDisposeCalls /\ Call(input, "idle", FALSE)
  \/ \E id \in DOMAIN calls : Abort(id, FALSE)

SpecExposerDispose == Init /\ [][NextExposerDispose]_vars

(***************************************************************************)
(* SpecReady: waitForReady in both variants.  The exposer signals ready    *)
(* early, late or never, a third party posts frames (ReadyFrames among     *)
(* them) to the caller's port, the signal given to wrap fires or the timer *)
(* elapses at any moment, and one call is made once wrap has returned.     *)
(***************************************************************************)
TimeoutChoices == {50, DefaultTimeoutMs}

ReadyNoise == { ReadyMsg, Null, [kind |-> "unknown"], [kind |-> "result"] }

ReadyInputs == { in \in CallInputs : in[1] = "add" }

NextReady ==
  \/ Expose
  \/ ExposerDeliver
  \/ \E sig \in SignalModes : WrapStart(sig)
  \/ WrapAbort
  \/ \E ms \in TimeoutChoices : WrapBag(ms)
  \/ WrapTimeout
  \/ CallerDeliver
  \/ \E d \in ReadyNoise : InjectToCaller(d)
  \/ \E input \in ReadyInputs : nextId <= MaxReadyCalls /\ Call(input, "none", FALSE)
  \/ \E input \in ReadyInputs : nextId <= MaxReadyCalls /\ CallBag(input, "none", FALSE)
  \/ \E id \in DOMAIN calls : BagContinue(id, FALSE)

SpecReady == Init /\ [][NextReady]_vars

\* SpecReady under the scheduling of the event loop: a timer that is armed
\* fires, a message that was posted is dispatched
SpecReadyLive ==
  /\ Init
  /\ [][NextReady]_vars
  /\ WF_vars(WrapTimeout)
  /\ WF_vars(CallerDeliver)

(***************************************************************************)
(* SpecWell: the callable caller and the exposer in a well-behaved         *)
(* environment: nothing is disposed, both ports deliver every frame in     *)
(* order, expose runs and every running handler eventually returns or      *)
(* throws.  The client calls returning, throwing and long-running         *)
(* handlers, with and without a signal, and may fire the signals.          *)
(***************************************************************************)
WellInputs == { in \in CallInputs : in[1] \in {"add", "boom", "longTask"} }

NextWell ==
  \/ Expose
  \/ ExposerDeliver
  \/ SettleSome
  \/ WrapStart("none")
  \/ CallerDeliver
  \/ \E input \in WellInputs, sm \in SignalModes :
       nextId <= MaxWellCalls /\ Call(input, sm, FALSE)
  \/ \E id \in DOMAIN calls : Abort(id, FALSE)

SpecWell ==
  /\ Init
  /\ [][NextWell]_vars
  /\ WF_vars(Expose)
  /\ WF_vars(ExposerDeliver)
  /\ WF_vars(CallerDeliver)
  /\ WF_vars(SettleSome)

(***************************************************************************)
(* SpecPending: every path on which the callable caller adds an entry to   *)
(* its pending map or removes one: calls with any signal on an endpoint    *)
(* whose postMessage may throw, results, signals that fire, dispose.       *)
(***************************************************************************)
PendingInputs == { in \in CallInputs : in[1] \in {"add", "longTask"} }

NextPending ==
  \/ Expose
  \/ ExposerDeliver
  \/ SettleSome
  \/ WrapStart("none")
  \/ CallerDeliver
  \/ \E input \in PendingInputs, sm \in SignalModes, pt \in BOOLEAN :
       nextId <= MaxPendingCalls /\ Call(input, sm, pt)
  \/ \E id \in DOMAIN calls, pt \in BOOLEAN : Abort(id, pt)
  \/ Dispose

SpecPending == Init /\ [][NextPending]_vars

(***************************************************************************)
(* SpecReadyOnce: waitForReady in both variants when the only ReadyFrame   *)
(* is the exposer's: wrap starts before or after it was dispatched on the  *)
(* caller's port, a third party posts other frames, and the event loop     *)
(* fires an armed timer and dispatches every posted message.               *)
(***************************************************************************)
ReadyOnceNoise == ReadyNoise \ {ReadyMsg}

NextReadyOnce ==
  \/ Expose
  \/ ExposerDeliver
  \/ \E sig \in SignalModes : WrapStart(sig)
  \/ WrapAbort
  \/ \E ms \in TimeoutChoices : WrapBag(ms)
  \/ WrapTimeout
  \/ CallerDeliver
  \/ \E d \in ReadyOnceNoise : InjectToCaller(d)
  \/ \E input \in ReadyInputs : nextId <= MaxReadyCalls /\ Call(input, "none", FALSE)
  \/ \E input \in ReadyInputs : nextId <= MaxReadyCalls /\ CallBag(input, "none", FALSE)
  \/ \E id \in DOMAIN calls : BagContinue(id, FALSE)

SpecReadyOnce ==
  /\ Init
  /\ [][NextReadyOnce]_vars
  /\ WF_vars(WrapTimeout)
  /\ WF_vars(CallerDeliver)

(***************************************************************************)
(* SpecDuplicate: CallFrames that repeat the id of a call of the caller    *)
(* reach the exposer (posted by a third party on the caller's side of the  *)
(* channel), for a handler that finishes at once and for one that is still *)
(* running, together with CancelFrames for that id.                        *)
(***************************************************************************)
DuplicateInputs == { in \in CallInputs : in[1] = "longTask" }

DuplicateFrames ==
  UNION { { CallMsg(id, "longTask", <<>>), CallMsg(id, "add", <<Num(1), Num(2)>>),
            CancelMsg(id) } : id \in DOMAIN calls }

NextDuplicate ==
  \/ Expose
  \/ ExposerDeliver
  \/ SettleSome
  \/ WrapStart("none")
  \/ CallerDeliver
  \/ \E input \in DuplicateInputs :
       nextId <= MaxDuplicateCalls /\ Call(input, "idle", FALSE)
  \/ \E id \in DOMAIN calls : Abort(id, FALSE)
  \/ \E d \in DuplicateFrames : InjectToExposer(d)

SpecDuplicate == Init /\ [][NextDuplicate]_vars

(***************************************************************************)
(* SpecRandom: the callable caller makes calls while the secure random     *)
(* source works or throws.                                                 *)
(***************************************************************************)
RandomInputs ==
  { <<"add", <<Num(1), Num(2)>> >>, <<"add", <<Thenable, Num(2)>> >> }

NextRandom ==
  \/ Expose
  \/ ExposerDeliver
  \/ WrapStart("none")
  \/ CallerDeliver
  \/ \E input \in RandomInputs, sm \in {"none", "idle"}, src \in RandomSources :
       nextId <= MaxRandomCalls /\ CallRandom(input, sm, src)
  \/ \E id \in DOMAIN calls : Abort(id, FALSE)
  \/ Dispose

SpecRandom == Init /\ [][NextRandom]_vars

TypeOK ==
  /\ wrapState \in {"idle", "waiting", "ready", "aborted", "timedout"}
  /\ pendingCalls \subseteq DOMAIN calls


(***************************************************************************)
(* Vocabulary of the properties.                                           *)
(***************************************************************************)
InvocationsOf(id) == { i \in DOMAIN invocations : invocations[i].id = id }

\* a frame of the given kind and id is still on its way in queue q
InQueue(q, kind, id) == \E k \in DOMAIN q : KindIs(q[k], kind) /\ IdOf(q[k]) = id

\* the caller's signal of call id fired while the call was pending
AbortedBySignal(id) == calls[id].sig = "aborted" /\ calls[id].outcome = Rejected("aborted")

\* the outcome a call to a returning handler must have once it is settled
SettledAsReturned(id) ==
  \/ calls[id].outcome = Pending
  \/ calls[id].outcome = Resolved(RunHandler(calls[id].name, calls[id].args).v)
  \/ AbortedBySignal(id)

(***************************************************************************)
(* C1: under any interleaving of the matching ResultFrame arriving, the    *)
(* signal firing and dispose, the promise of a call is settled at most     *)
(* once: the resolve / reject functions of the promise are invoked at most *)
(* once per call, so the later of result and cancellation settles nothing. *)
(***************************************************************************)
C1_AtMostOneSettlement ==
  \A id \in DOMAIN calls :
    /\ calls[id].settles <= 1
    /\ (calls[id].settles = 0) <=> (calls[id].outcome = Pending)
    /\ ~calls[id].threw

\* a call was rejected by its signal, and afterwards the exposer's
\* ResultFrame for the same id was delivered to the caller's listener
C1_Witness ==
  \E id \in DOMAIN calls :
    /\ calls[id].cancelPosts = 1
    /\ calls[id].settles = 1
    /\ ~disposed
    /\ toCaller = <<>>
    /\ \E i \in InvocationsOf(id) : invocations[i].posts = 1

(***************************************************************************)
(* C2: wrap returns the API only after a ReadyFrame was observed, so no    *)
(* CallFrame is posted before the exposer has attached its listener; every *)
(* call frame that reaches a listening exposer is handed to the handler    *)
(* named in it exactly once and is answered, also when wrap started        *)
(* waiting before expose ran.                                              *)
(***************************************************************************)
C2_ReadinessGating ==
  /\ wrapState = "ready" => exposeState # "none"
  /\ calls # <<>> => wrapState = "ready"
  /\ \A id \in DOMAIN calls :
       (calls[id].callPosted /\ exposeState = "listening" /\ ~InQueue(toExposer, "call", id))
         => IF calls[id].name \in Handlers
            THEN /\ Cardinality(InvocationsOf(id)) = 1
                 /\ \A i \in InvocationsOf(id) :
                      IsAsync(calls[id].name) \/ invocations[i].posts = 1
            ELSE \/ InQueue(toCaller, "result", id)
                 \/ id \notin pendingCalls

\* wrap waited before expose ran, and a call made afterwards was answered
C2_Witness ==
  /\ wrapEarly
  /\ \E id \in DOMAIN calls :
       /\ calls[id].outcome = Resolved(Num(3))
       /\ Cardinality(InvocationsOf(id)) = 1

ResultFramesOf(id) ==
  { toCaller[k] : k \in { j \in DOMAIN toCaller :
                            KindIs(toCaller[j], "result") /\ IdOf(toCaller[j]) = id } }

(***************************************************************************)
(* C6: if a handler throws new Error("boom"), the caller's promise rejects *)
(* with an Error whose message is "boom", the message of the thrown error. *)
(***************************************************************************)
C6_ErrorMessagePreserved ==
  \A id \in DOMAIN calls :
    calls[id].name = "boom" =>
      \/ calls[id].outcome = Pending
      \/ calls[id].outcome = Rejected("boom")
      \/ AbortedBySignal(id)

(***************************************************************************)
(* C7: whatever value a handler throws, the ResultFrame posted for the     *)
(* call carries a non-empty error string, and the caller's promise for the *)
(* failed handler rejects and never resolves.                              *)
(***************************************************************************)
C7_ThrowAlwaysRejects ==
  \A id \in DOMAIN calls :
    calls[id].name \in Throwers =>
      /\ \A f \in ResultFramesOf(id) : Has(f, "error") /\ f.error # ""
      /\ calls[id].outcome.st # "resolved"

(***************************************************************************)
(* C8: a handler that throws null or undefined makes the caller's promise  *)
(* reject with an Error whose message is exactly "unknown".                *)
(***************************************************************************)
C8_FalsyThrowIsUnknown ==
  \A id \in DOMAIN calls :
    calls[id].name \in {"throwsNull", "throwsUndefined"} =>
      /\ \A f \in ResultFramesOf(id) : f = ResultErr(id, "unknown")
      /\ \/ calls[id].outcome = Pending
         \/ calls[id].outcome = Rejected("unknown")
         \/ AbortedBySignal(id)

\* a call to throwsNull and a call to throwsUndefined both rejected with "unknown"
C8_Witness ==
  \E a, b \in DOMAIN calls :
    /\ calls[a].name = "throwsNull" /\ calls[b].name = "throwsUndefined"
    /\ calls[a].outcome = Rejected("unknown")
    /\ calls[b].outcome = Rejected("unknown")
    /\ calls[a].sig # "aborted" /\ calls[b].sig # "aborted"


\* a frame the caller's result listener has to ignore
IgnoredByCaller(d) == Falsy(d) \/ ~KindIs(d, "result") \/ IdOf(d) \notin pendingCalls

\* the message event at the head of the caller's queue is dispatched
CallerDelivery == toCaller # <<>> /\ toCaller' = Tail(toCaller)

(***************************************************************************)
(* C10: a ResultFrame whose id is not in the pending map (never issued,    *)
(* retired, or missing) and every non-result or malformed message leave    *)
(* the caller unchanged: no promise is settled and the pending map stays   *)
(* as it is; calls still settle as their handler returned, at most once.   *)
(***************************************************************************)
C10_UnknownFramesIgnored ==
  /\ [][(CallerDelivery /\ wrapState = "ready" /\ IgnoredByCaller(Head(toCaller)))
          => UNCHANGED <<wrapState, wrapGuard, waitFor, surface, disposed, pendingCalls, calls,
                         nextId, toExposer>>]_vars
  /\ [](\A id \in DOMAIN calls :
          /\ calls[id].settles <= 1
          /\ calls[id].name = "add" => SettledAsReturned(id))

\* a third party's frame was delivered while a call was pending, after a
\* result with a retired id had been delivered, and the call then resolved
C10_Witness ==
  /\ injected = 1
  /\ toCaller = <<>>
  /\ \E a, b \in DOMAIN calls :
       /\ AbortedBySignal(a)
       /\ \E i \in InvocationsOf(a) : invocations[i].posts = 1
       /\ calls[b].name = "add"
       /\ calls[b].outcome = Resolved(Num(3))


(***************************************************************************)
(* C4: a call made with an already-aborted signal rejects with             *)
(* Error("aborted") and no CallFrame for it is ever posted, so the exposer *)
(* never sees the call and the handler never runs.                         *)
(***************************************************************************)
C4_PreAbortedNeverDispatches ==
  \A id \in DOMAIN calls :
    (calls[id].preAborted /\ calls[id].phase = "done") =>
      /\ calls[id].outcome = Rejected("aborted")
      /\ ~calls[id].callPosted
      /\ ~InQueue(toExposer, "call", id)
      /\ InvocationsOf(id) = {}

(***************************************************************************)
(* C5: when the signal of a pending call (its CallFrame posted, its entry  *)
(* in the pending map of a caller that was not closed) fires, in that same *)
(* step the promise rejects with Error("aborted"), the entry is removed    *)
(* and a CancelFrame with idRef = id is posted, whatever the exposer and   *)
(* the handler do.                                                         *)
(***************************************************************************)
C5_MidFlightCancel ==
  [][\A id \in DOMAIN calls :
       (/\ id \in pendingCalls
        /\ calls[id].callPosted
        /\ ~disposed
        /\ calls[id].sig = "idle"
        /\ calls'[id].sig = "aborted")
         => /\ calls'[id].outcome = Rejected("aborted")
            /\ calls'[id].settles = 1
            /\ id \notin pendingCalls'
            /\ toExposer' = Append(toExposer, CancelMsg(id))]_vars

\* the signal of a call to a handler that is still running fired: the
\* promise is rejected with "aborted" and the CancelFrame was posted
C5_Witness ==
  \E id \in DOMAIN calls :
    /\ calls[id].name = "longTask"
    /\ calls[id].cancelPosts = 1
    /\ calls[id].outcome = Rejected("aborted")
    /\ id \notin pendingCalls
    /\ \E i \in InvocationsOf(id) : invocations[i].st = "running"

(***************************************************************************)
(* C11: once the callable API has been disposed, every invocation throws   *)
(* Error("API has been disposed") synchronously: from then on no id is     *)
(* generated, no call and no pending entry is created and the caller posts *)
(* no frame; the API throws nothing else and only when disposed.           *)
(***************************************************************************)
C11_DisposedApiThrows ==
  /\ [][(disposed /\ surface = "callable")
          => /\ nextId' = nextId
             /\ DOMAIN calls' = DOMAIN calls
             /\ pendingCalls' = pendingCalls
             /\ \/ toExposer' = toExposer
                \/ toExposer # <<>> /\ toExposer' = Tail(toExposer)]_vars
  /\ [](apiThrows \subseteq {"API has been disposed"})
  /\ [](apiThrows # {} => disposed)

\* the API was invoked after disposal, while a call made before was pending
C11_Witness ==
  /\ disposed
  /\ "API has been disposed" \in apiThrows
  /\ nextId = 2
  /\ \E id \in DOMAIN calls : calls[id].outcome = Pending

\* the caller's message listener is attached
CallerListening == wrapState = "ready" /\ ~disposed

(***************************************************************************)
(* C12: disposing the caller API detaches its message listener and clears  *)
(* the pending map without settling any promise; a promise that was        *)
(* pending at disposal is never settled afterwards, whatever frame arrives *)
(* and whenever its signal fires; a second disposal changes nothing.       *)
(***************************************************************************)
C12_DisposeAbandons ==
  /\ [][(~disposed /\ disposed')
          => /\ pendingCalls' = {}
             /\ ~CallerListening'
             /\ \A id \in DOMAIN calls :
                  /\ calls'[id].outcome = calls[id].outcome
                  /\ calls'[id].settles = calls[id].settles]_vars
  /\ [](\A id \in DOMAIN calls :
          calls[id].abandoned => calls[id].outcome = Pending /\ calls[id].settles = 0)
  /\ []((disposed /\ surface = "callable") => ~ENABLED (Dispose /\ vars' # vars))

\* the ids the caller can give to its calls
CallIds == { genId(n) : n \in 1..MaxLiveCalls }

(***************************************************************************)
(* C13: every call that was accepted into the caller's pending map         *)
(* eventually settles: its promise resolves or rejects.                    *)
(***************************************************************************)
C13_AcceptedCallsSettle ==
  \A id \in CallIds :
    (id \in pendingCalls) ~> (id \in DOMAIN calls /\ calls[id].outcome # Pending)

\* the message event at the head of the exposer's queue is dispatched to
\* the listener expose attached
ExposerDelivery ==
  /\ toExposer # <<>>
  /\ toExposer' = Tail(toExposer)
  /\ exposeState = "listening"

\* a message that is not a well-formed CallFrame or CancelFrame
Malformed(d) ==
  \/ IsValue(d)
  \/ ~Has(d, "kind")
  \/ d.kind \notin {"call", "cancel"}
  \/ d.kind = "call" /\ (~Has(d, "id") \/ ~Has(d, "name"))
  \/ d.kind = "cancel" /\ ~Has(d, "id") /\ ~Has(d, "idRef")

(***************************************************************************)
(* C14: for every incoming message that is not a well-formed CallFrame or  *)
(* CancelFrame the exposer's listener invokes no handler, changes no       *)
(* invocation record and posts no frame.                                   *)
(***************************************************************************)
C14_MalformedFramesIgnored ==
  [][(ExposerDelivery /\ Malformed(Head(toExposer)))
       => UNCHANGED <<controllerMap, invocations, toCaller>>]_vars

\* number of ResultFrames carrying id that are on their way to the caller
ResultsInFlight(id) ==
  Cardinality({ k \in DOMAIN toCaller : KindIs(toCaller[k], "result") /\ IdOf(toCaller[k]) = id })

(***************************************************************************)
(* C15: for every CallFrame the exposer accepts it posts at most one       *)
(* ResultFrame with that id, however the completion of the handler and     *)
(* matching CancelFrames interleave; processing a CancelFrame posts no     *)
(* frame.                                                                  *)
(***************************************************************************)
C15_AtMostOneResultFrame ==
  /\ [](\A i \in DOMAIN invocations :
          /\ invocations[i].posts <= 1
          /\ ResultsInFlight(invocations[i].id) <= invocations[i].posts
          /\ invocations[i].st = "running" => invocations[i].posts = 0)
  /\ [][(ExposerDelivery /\ KindIs(Head(toExposer), "cancel")) => toCaller' = toCaller]_vars

\* one handler was cancelled while it ran and failed afterwards, another
\* had completed when its CancelFrame arrived: one ResultFrame each
C15_Witness ==
  \E i, j \in DOMAIN invocations :
    /\ invocations[i].aborted /\ invocations[i].st = "settled" /\ invocations[i].posts = 1
    /\ ~invocations[j].aborted /\ invocations[j].st = "settled" /\ invocations[j].posts = 1
    /\ calls[invocations[j].id].cancelPosts = 1
    /\ toExposer = <<>>

(***************************************************************************)
(* C16: expose attaches its message listener before it posts the           *)
(* ReadyFrame: whenever a ReadyFrame is on its way or has been observed    *)
(* by wrap the listener has been attached, so every CallFrame the caller   *)
(* sends afterwards is dispatched to the attached listener and handled     *)
(* (as long as the exposer is not disposed).                               *)
(***************************************************************************)
C16_ListenerBeforeReady ==
  /\ []((InQueue(toCaller, "ready", NoId) \/ wrapState = "ready" \/ toExposer # <<>>)
          => exposeState \in {"listening", "disposed"})
  /\ [][(/\ toExposer # <<>>
         /\ toExposer' = Tail(toExposer)
         /\ KindIs(Head(toExposer), "call")
         /\ exposeState # "disposed")
          => /\ exposeState = "listening"
             /\ IF NameOf(Head(toExposer)) \in Handlers
                THEN Len(invocations') = Len(invocations) + 1
                ELSE Len(toCaller') = Len(toCaller) + 1]_vars

\* expose ran before wrap, and wrap's first call reached a handler
C16_Witness ==
  /\ ~wrapEarly
  /\ exposeState = "listening"
  /\ Len(invocations) = 1
  /\ invocations[1].id = genId(1)

\* the CancelFrame at the head of the exposer's queue names an invocation
\* that is still in flight
CancelsInFlight(d) ==
  /\ KindIs(d, "cancel")
  /\ Truthy(CallIdOf(d))
  /\ CallIdOf(d).s \in DOMAIN controllerMap

C18_CancelFrameEffect ==
  [][(ExposerDelivery /\ KindIs(Head(toExposer), "cancel"))
       => /\ toCaller' = toCaller
          /\ Len(invocations') = Len(invocations)
          /\ IF CancelsInFlight(Head(toExposer))
             THEN LET id == CallIdOf(Head(toExposer)).s
                  IN /\ DOMAIN controllerMap' = DOMAIN controllerMap \ {id}
                     /\ \A i \in DOMAIN invocations :
                          invocations'[i].aborted =
                            (invocations[i].aborted \/ i = controllerMap[id])
             ELSE /\ controllerMap' = controllerMap
                  /\ invocations' = invocations]_vars

\* a handler was cancelled while it ran and completed afterwards; the
\* caller's CancelFrame and a third party's frame have both been processed
C18_Witness ==
  /\ injected = 1
  /\ toExposer = <<>>
  /\ controllerMap = <<>>
  /\ \E i \in DOMAIN invocations :
       /\ invocations[i].aborted
       /\ invocations[i].st = "settled"
       /\ invocations[i].id \in DOMAIN calls
       /\ calls[invocations[i].id].cancelPosts = 1

\* the invocations whose handler has not settled yet
Running == { i \in DOMAIN invocations : invocations[i].st = "running" }

(***************************************************************************)
(* C19: the record of an invocation is removed in the step in which its    *)
(* handler settles, whether it returned or failed and whether or not the   *)
(* ResultFrame could be posted; hence whenever no handler is running the   *)
(* in-flight map is empty.                                                 *)
(***************************************************************************)
C19_NoOrphanedRecord ==
  /\ [](Running = {} => controllerMap = <<>>)
  /\ [][\A i \in Running :
          invocations'[i].st = "settled" =>
            invocations[i].id \notin DOMAIN controllerMap']_vars

\* one handler settled and its frame was posted, the endpoint broke, a
\* second handler settled and the post threw; no record is left
C19_Witness ==
  /\ postBroken
  /\ Running = {}
  /\ controllerMap = <<>>
  /\ \E i, j \in DOMAIN invocations :
       /\ invocations[i].name = "longTask" /\ invocations[i].posts = 1
       /\ invocations[j].name = "longTask" /\ invocations[j].posts = 0
       /\ invocations[j].st = "settled"

\* the error strings the specification admits for a thrown value: its
\* string form, or "unknown" when that is empty; for a falsy value the
\* fallback "unknown" is admitted as well
ClaimedErrors(v) ==
  { IF JSString(v) = "" THEN "unknown" ELSE JSString(v) }
    \cup (IF Truthy(v) THEN {} ELSE {"unknown"})

(***************************************************************************)
(* C20: when a handler rejects after its signal was triggered by a         *)
(* CancelFrame, the ResultFrame posted has the error "aborted" whatever    *)
(* the value; when it rejects with its signal not triggered, the error is  *)
(* String(value), or "unknown" when that would be empty.                   *)
(***************************************************************************)
C20_FailureErrorString ==
  [][\A i \in Running : \A o \in ExposerOutcomes :
       (o.type = "throw" /\ ~postBroken /\ HandlerSettle(i, o)) =>
          /\ Len(toCaller') = Len(toCaller) + 1
          /\ LET f == toCaller'[Len(toCaller')]
             IN /\ KindIs(f, "result") /\ IdOf(f) = invocations[i].id
                /\ Has(f, "error") /\ ~Has(f, "result")
                /\ IF invocations[i].aborted
                   THEN f.error = "aborted"
                   ELSE f.error \in ClaimedErrors(o.v)]_vars

\* the result listener of the caller handles the message at the head of its queue
ResultDelivery == CallerDelivery /\ CallerListening /\ KindIs(Head(toCaller), "result")

(***************************************************************************)
(* C21: with several calls in flight, a ResultFrame settles the pending    *)
(* call whose id is the frame's id and changes no other call, in whatever  *)
(* order the frames arrive; and a CallFrame for a handler that finishes at *)
(* once gets its ResultFrame in the step that handles it, whether or not   *)
(* handlers of earlier calls are still running.                            *)
(***************************************************************************)
C21_MatchedByIdNoBlocking ==
  /\ [][ResultDelivery =>
          LET rid == IdOf(Head(toCaller))
          IN /\ \A id \in DOMAIN calls : id # rid => calls'[id] = calls[id]
             /\ pendingCalls' = pendingCalls \ {rid}
             /\ rid \in pendingCalls =>
                  /\ calls'[rid].outcome = ResultOutcome(Head(toCaller))
                  /\ calls'[rid].settles = calls[rid].settles + 1]_vars
  /\ [][(ExposerDelivery /\ ~postBroken /\ KindIs(Head(toExposer), "call")
           /\ NameOf(Head(toExposer)) \in Handlers /\ ~IsAsync(NameOf(Head(toExposer))))
          => /\ Len(toCaller') = Len(toCaller) + 1
             /\ KindIs(toCaller'[Len(toCaller')], "result")
             /\ IdOf(toCaller'[Len(toCaller')]) = IdOf(Head(toExposer))]_vars

\* the second call has resolved with its handler's value while the handler
\* of the first call is still running and the first call is still pending
C21_Witness ==
  /\ genId(1) \in pendingCalls /\ genId(2) \in DOMAIN calls
  /\ calls[genId(1)].name = "longTask" /\ calls[genId(1)].outcome = Pending
  /\ \E i \in Running : invocations[i].id = genId(1)
  /\ calls[genId(2)].name = "add" /\ calls[genId(2)].outcome = Resolved(Num(3))

(***************************************************************************)
(* C22: in the callable caller, a call made with an already-aborted signal *)
(* has posted a CancelFrame referencing its id, has no pending entry, and  *)
(* is rejected with "aborted".                                             *)
(***************************************************************************)
C22_PreAbortedPostsCancel ==
  \A id \in DOMAIN calls :
    (surface = "callable" /\ calls[id].preAborted) =>
      /\ calls[id].cancelPosts = 1
      /\ id \notin pendingCalls
      /\ calls[id].outcome = Rejected("aborted")
      /\ ~calls[id].callPosted

\* the signal passed to call id fires in this step
SignalFires(id) == calls[id].sig = "idle" /\ calls'[id].sig = "aborted"

\* call id was settled by a ResultFrame
SettledByResult(id) ==
  /\ calls[id].callPosted
  /\ calls[id].outcome # Pending
  /\ ~AbortedBySignal(id)

(***************************************************************************)
(* C23: when a call made with a signal is settled by a ResultFrame, the    *)
(* abort listener is removed in that step, and if removeEventListener      *)
(* throws the promise still settles with the frame's outcome and nothing   *)
(* escapes; when the signal fires afterwards no CancelFrame is posted, no  *)
(* promise is rejected and no other call changes.                          *)
(***************************************************************************)
C23_ListenerCleanup ==
  /\ [][ResultDelivery =>
          LET rid == IdOf(Head(toCaller))
          IN (rid \in pendingCalls /\ calls[rid].sig = "idle") =>
               /\ calls'[rid].outcome = ResultOutcome(Head(toCaller))
               /\ ~calls'[rid].threw
               /\ ~calls[rid].hostile => ~calls'[rid].listener]_vars
  /\ [][\A id \in DOMAIN calls :
          (SettledByResult(id) /\ SignalFires(id)) =>
            /\ toExposer' = toExposer
            /\ pendingCalls' = pendingCalls
            /\ calls'[id].outcome = calls[id].outcome
            /\ calls'[id].settles = calls[id].settles
            /\ \A other \in DOMAIN calls : other # id => calls'[other] = calls[other]]_vars

\* a call with a sound signal and a call with a signal whose
\* removeEventListener throws were both resolved by their ResultFrames and
\* both signals fired afterwards
C23_Witness ==
  \E a, b \in DOMAIN calls :
    /\ calls[a].preAborted = FALSE /\ calls[b].preAborted = FALSE
    /\ calls[a].entry = "wrapped" /\ calls[b].entry = "wrapped"
    /\ calls[a].outcome.st = "resolved" /\ calls[b].outcome.st = "resolved"
    /\ calls[a].sig = "aborted" /\ calls[b].sig = "aborted"
    /\ calls[a].cancelPosts = 0 /\ calls[b].cancelPosts = 0
    /\ ~calls[a].hostile /\ calls[b].hostile

\* postMessage threw when the CallFrame of call id was posted
CallPostFailed(id) ==
  /\ surface = "callable"
  /\ ~calls[id].preAborted
  /\ ~calls[id].callPosted

(***************************************************************************)
(* C24: if postMessage throws while the CallFrame is posted, the call has  *)
(* no pending entry, its promise is rejected with the thrown error, no     *)
(* CallFrame for it is ever sent (the send is not retried) and no          *)
(* CancelFrame for it is posted, also once its signal has fired.           *)
(***************************************************************************)
C24_CallPostFailure ==
  \A id \in DOMAIN calls :
    CallPostFailed(id) =>
      /\ id \notin pendingCalls
      /\ calls[id].outcome = Rejected("post failed")
      /\ calls[id].settles = 1
      /\ calls[id].cancelPosts = 0
      /\ ~InQueue(toExposer, "call", id) /\ ~InQueue(toExposer, "cancel", id)
      /\ InvocationsOf(id) = {}

\* the post of a CallFrame threw for a call with a sound signal and for a
\* call with a signal that keeps its listener, and both signals have fired
C24_Witness ==
  \E a, b \in DOMAIN calls :
    /\ CallPostFailed(a) /\ CallPostFailed(b)
    /\ ~calls[a].hostile /\ calls[b].hostile
    /\ calls[a].sig = "aborted" /\ calls[b].sig = "aborted"
    /\ calls[a].outcome = Rejected("post failed")
    /\ calls[b].outcome = Rejected("post failed")

(***************************************************************************)
(* C25: when the signal of a pending call fires and posting the            *)
(* CancelFrame throws, nothing escapes the abort listener: in that step    *)
(* the pending entry is removed and the promise rejects with "aborted".    *)
(***************************************************************************)
C25_CancelPostFailure ==
  [][\A id \in DOMAIN calls :
       (/\ id \in pendingCalls
        /\ calls[id].listener
        /\ SignalFires(id)
        /\ toExposer' = toExposer)
         => /\ id \notin pendingCalls'
            /\ calls'[id].outcome = Rejected("aborted")
            /\ ~calls'[id].threw]_vars

\* the argument list holds a promise-like value
HasPromiseArg(args) == \E k \in DOMAIN args : IsPromiseLike(args[k])

(***************************************************************************)
(* C26: in the callable caller (not disposed), a call whose args hold a    *)
(* promise-like value throws a TypeError synchronously: no id is used, no  *)
(* pending entry and no call is created, no frame is posted and the API is *)
(* not disposed by it; no call ever carries a promise-like argument, and   *)
(* the TypeError is thrown for no other reason.                            *)
(***************************************************************************)
C26_PromiseArgsRejected ==
  /\ [][\A input \in ArgInputs, sm \in {"none", "idle"} :
          (~disposed /\ HasPromiseArg(input[2]) /\ Call(input, sm, FALSE))
            => /\ PromiseArgMessage \in apiThrows'
               /\ UNCHANGED <<nextId, calls, pendingCalls, toExposer, disposed, wrapState>>]_vars
  /\ [](\A id \in DOMAIN calls : ~HasPromiseArg(calls[id].args))
  /\ [](\A k \in DOMAIN toExposer :
          KindIs(toExposer[k], "call") => ~HasPromiseArg(ArgsOf(toExposer[k])))
  /\ [][(PromiseArgMessage \in apiThrows' /\ PromiseArgMessage \notin apiThrows)
          => ~disposed /\ UNCHANGED <<nextId, calls, pendingCalls, toExposer>>]_vars

\* the API threw the TypeError and is still in use: it is not disposed and
\* two calls made on it have resolved
C26_Witness ==
  /\ PromiseArgMessage \in apiThrows
  /\ ~disposed
  /\ nextId = 3
  /\ \A id \in DOMAIN calls : calls[id].outcome.st = "resolved"

\* the call id of a CancelFrame as the specification resolves it: idRef,
\* or the legacy id when idRef is absent or falsy
ResolvedCallId(d) ==
  IF Has(d, "idRef") /\ d.idRef # "" THEN Str(d.idRef)
  ELSE IF Has(d, "id") THEN Str(d.id)
  ELSE Undefined

(***************************************************************************)
(* C27: the exposer resolves the call id of a CancelFrame as idRef, or as  *)
(* the legacy id field when idRef is absent or falsy: a CancelFrame whose  *)
(* id so resolved has an invocation record triggers the signal of that     *)
(* invocation and removes the record.                                      *)
(***************************************************************************)
C27_CancelIdResolution ==
  [][(ExposerDelivery /\ KindIs(Head(toExposer), "cancel"))
       => LET callId == ResolvedCallId(Head(toExposer))
          IN (Truthy(callId) /\ callId.s \in DOMAIN controllerMap) =>
               /\ invocations'[controllerMap[callId.s]].aborted
               /\ callId.s \notin DOMAIN controllerMap']_vars

\* the exposer's disposer runs in this step
ExposerDisposal == exposeState = "listening" /\ exposeState' = "disposed"

(***************************************************************************)
(* C28: the disposer returned by expose empties the in-flight map without  *)
(* triggering the signal of any handler in flight and posts nothing; once  *)
(* disposed, a message event invokes no handler, posts no ResultFrame and  *)
(* triggers no signal, a messageerror event reaches no handler, and the    *)
(* exposer stays disposed with an empty map.                               *)
(***************************************************************************)
C28_ExposerDisposal ==
  /\ [][ExposerDisposal =>
          /\ controllerMap' = <<>>
          /\ invocations' = invocations
          /\ toCaller' = toCaller]_vars
  /\ [][exposeState = "disposed" =>
          /\ exposeState' = "disposed"
          /\ controllerMap' = <<>>
          /\ Len(invocations') = Len(invocations)
          /\ \A i \in DOMAIN invocations : invocations'[i].aborted = invocations[i].aborted
          /\ messageErrors'.handled = messageErrors.handled
          /\ (toExposer # <<>> /\ toExposer' = Tail(toExposer)) =>
               (toCaller' = toCaller /\ invocations' = invocations)]_vars

\* the exposer was disposed while a handler was running; afterwards a
\* CancelFrame for that handler, a CallFrame of a second call and a
\* messageerror event arrived: the handler's signal is untouched and the
\* second call has no invocation
C28_Witness ==
  /\ exposeState = "disposed"
  /\ toExposer = <<>>
  /\ messageErrors.events > messageErrors.handled
  /\ \E i \in Running :
       /\ ~invocations[i].aborted
       /\ invocations[i].id \in DOMAIN calls
       /\ calls[invocations[i].id].cancelPosts = 1
  /\ \E id \in DOMAIN calls : calls[id].callPosted /\ InvocationsOf(id) = {}

\* waitForReady has rejected: its message listener is detached
WaitFailed == wrapState \in {"aborted", "timedout"}

ExpectedTimeoutError(ms) ==
  IF ms = 50 THEN "Endpoint readiness timeout after 50ms"
  ELSE "Endpoint readiness timeout after 5000ms"

\* waitForReady(endpoint, timeoutMs) has been called
TimedWait == surface = "bag" /\ wrapState # "idle"

(***************************************************************************)
(* C30: waitForReady(endpoint, timeoutMs) rejects with the error           *)
(* "Endpoint readiness timeout after <timeoutMs>ms" when its timer elapses *)
(* before a ReadyFrame was observed, and only then: it rejects with        *)
(* nothing else, and never after it has observed a ReadyFrame.  The wait,  *)
(* and the wrap that awaits it, never hangs: it resolves or fails with     *)
(* that error, and it fails whenever no ReadyFrame reaches it.             *)
(***************************************************************************)
C30_ReadinessTimeout ==
  /\ [][(TimedWait /\ wrapGuard = "timer" /\ wrapGuard' = "none" /\ wrapState' # "ready")
          => /\ waitFor'.outcome = Rejected(ExpectedTimeoutError(waitFor.timeoutMs))
             /\ wrapState' = "timedout"]_vars
  /\ [](TimedWait =>
          \/ waitFor.outcome = Pending /\ wrapState = "waiting" /\ wrapGuard = "timer"
          \/ waitFor.outcome = Resolved(Undefined) /\ wrapState = "ready"
          \/ /\ waitFor.outcome = Rejected(ExpectedTimeoutError(waitFor.timeoutMs))
             /\ wrapState = "timedout")
  /\ [][(TimedWait /\ waitFor.outcome = Pending /\ waitFor'.outcome.st = "rejected")
          => toCaller' = toCaller]_vars
  /\ (TimedWait /\ wrapState = "waiting") ~> (wrapState \in {"ready", "timedout"})
  /\ [](TimedWait /\ [](wrapState # "ready") => <>(wrapState = "timedout"))

\* the exposer never ran, the caller waited 50 ms and the wait failed
C30_Witness ==
  /\ exposeState = "none"
  /\ surface = "bag"
  /\ waitFor.timeoutMs = 50
  /\ wrapState = "timedout"
  /\ waitFor.outcome = Rejected("Endpoint readiness timeout after 50ms")

\* what a call made in the current state can leave behind for its id: the
\* queue of frames posted to the exposer and the outcome of its promise
CallEffects(id, input) ==
  { [posted |-> q, outcome |-> o] :
      q \in { toExposer, Append(toExposer, CallMsg(id, input[1], input[2])),
              Append(toExposer, CancelMsg(id)) },
      o \in { Pending, Rejected("aborted"), Rejected("post failed") } }

\* the callable caller's call, made in the current state, has effect e
CallableCallHas(input, sm, pt, e) ==
  ENABLED (/\ IssueCall(input, sm, pt)
           /\ toExposer' = e.posted
           /\ calls'[genId(nextId)].outcome = e.outcome)

\* the method-bag caller's call, made in the current state, has effect e
BagCallHas(input, sm, pt, e) ==
  ENABLED (/\ BagSend(genId(nextId), NewCall(input, sm), pendingCalls \cup {genId(nextId)}, pt)
           /\ toExposer' = e.posted
           /\ calls'[genId(nextId)].outcome = e.outcome)

(***************************************************************************)
(* C31: the two caller surfaces have identical mechanics: a call without   *)
(* promise arguments, made in the same state of the caller with the same   *)
(* state of its signal and of the endpoint, posts the same frames and      *)
(* leaves the returned promise with the same outcome whether it is made    *)
(* through the callable caller or through the method-bag caller.           *)
(***************************************************************************)
C31_SurfacesAgree ==
  (wrapState = "ready" /\ ~disposed /\ nextId <= MaxSurfaceCalls) =>
    \A input \in { in \in SurfaceInputs : Len(in[2]) = 0 },
       sm \in SignalModes, pt \in BOOLEAN :
      \A e \in CallEffects(genId(nextId), input) :
        CallableCallHas(input, sm, pt, e) <=> BagCallHas(input, sm, pt, e)

\* the ids the caller can give to its calls in SpecWell
WellCallIds == { genId(n) : n \in 1..MaxWellCalls }

\* what a ResultFrame says: the handler's return value, or an error string
FrameOutcome(d) ==
  IF Has(d, "error") THEN Rejected(d.error)
  ELSE Resolved(IF Has(d, "result") THEN d.result ELSE Undefined)

C33_PendingMapInvariant ==
  /\ \A id \in pendingCalls : id \in DOMAIN calls /\ calls[id].outcome = Pending
  /\ \A id \in DOMAIN calls : calls[id].outcome # Pending => id \notin pendingCalls
  /\ \A id \in DOMAIN calls : calls[id].settles > 0 => id \notin pendingCalls
  /\ disposed => pendingCalls = {}

\* the API was disposed with one call pending, after another call had been
\* settled by a post that failed
C33_Witness ==
  /\ disposed
  /\ pendingCalls = {}
  /\ \E a, b \in DOMAIN calls :
       /\ calls[a].outcome = Rejected("post failed")
       /\ calls[b].abandoned /\ calls[b].callPosted /\ calls[b].outcome = Pending

\* in this step the caller posts frame f on its port
PostsToExposer(f) == toExposer' = Append(toExposer, f)

(***************************************************************************)
(* C34: in the callable caller a CancelFrame for a call id is posted at    *)
(* most once, only after the CallFrame with that id was posted and only    *)
(* while the call is pending (the step that posts it takes the call out of *)
(* the pending map, and no id ever returns to the map); none is posted for *)
(* a call that has settled, whose CallFrame post failed or that was        *)
(* pre-aborted; in the queue to the exposer no CancelFrame precedes the    *)
(* CallFrame with its id.                                                  *)
(***************************************************************************)
C34_CancelAfterCall ==
  /\ [][\A id \in DOMAIN calls :
          PostsToExposer(CancelMsg(id)) =>
            /\ calls[id].callPosted
            /\ ~calls[id].preAborted
            /\ calls[id].outcome = Pending
            /\ id \in pendingCalls
            /\ id \notin pendingCalls'
            /\ calls[id].cancelPosts = 0]_vars
  /\ [][\A id \in DOMAIN calls : id \notin pendingCalls => id \notin pendingCalls']_vars
  /\ [](\A id \in DOMAIN calls :
          /\ calls[id].cancelPosts <= 1
          /\ (~calls[id].callPosted \/ calls[id].preAborted) =>
               calls[id].cancelPosts = 0 /\ ~InQueue(toExposer, "cancel", id)
          /\ \A k, j \in DOMAIN toExposer :
               (/\ KindIs(toExposer[k], "cancel") /\ IdOf(toExposer[k]) = id
                /\ KindIs(toExposer[j], "call") /\ IdOf(toExposer[j]) = id) => j < k)

\* one call was cancelled by its signal after its CallFrame was posted; the
\* signal of another call, whose CallFrame could not be posted, fired too
C34_Witness ==
  \E a, b \in DOMAIN calls :
    /\ calls[a].callPosted /\ calls[a].cancelPosts = 1
    /\ toExposer = <<CallMsg(a, calls[a].name, calls[a].args), CancelMsg(a)>>
    /\ calls[b].outcome = Rejected("post failed")
    /\ calls[b].sig = "aborted" /\ ~calls[b].preAborted
    /\ calls[b].cancelPosts = 0

\* a ReadyFrame is on its way to the caller
ReadyInFlight == \E k \in DOMAIN toCaller : SeesReady(toCaller[k])

\* the exposer's ReadyFrame was dispatched on the caller's port before wrap
\* attached the listener of waitForReady
ReadyMissed == exposeState # "none" /\ wrapState = "idle" /\ ~ReadyInFlight

(***************************************************************************)
(* C35: the ReadyFrame is one-shot and never replayed.  expose posts it    *)
(* exactly once, when it starts to listen.  A wrap whose waitForReady      *)
(* attaches its listener after that frame was dispatched never observes    *)
(* it: the wait never resolves and wrap never returns its API, although    *)
(* the exposer listens; the wait rejects when its timer elapses or its     *)
(* signal fires, and stays pending when it has neither.                    *)
(***************************************************************************)
C35_ReadyOneShot ==
  /\ [][(toCaller' = Append(toCaller, ReadyMsg))
          => (exposeState = "none" /\ exposeState' = "listening")]_vars
  /\ [][(exposeState = "none" /\ exposeState' = "listening")
          => toCaller' = Append(toCaller, ReadyMsg)]_vars
  /\ [][exposeState # "none" => exposeState' # "none"]_vars
  /\ [](ReadyMissed => [](/\ wrapState # "ready"
                          /\ waitFor.outcome # Resolved(Undefined)
                          /\ waitFor.outcome.st # "resolved"))
  /\ [](ReadyMissed => [](wrapGuard = "timer" => <>(wrapState = "timedout")))
  /\ [](ReadyMissed =>
          []((wrapState = "waiting" /\ wrapGuard = "none") => [](wrapState = "waiting")))
  /\ [](ReadyMissed => [](waitFor.outcome.st = "rejected" => WaitFailed))

\* the exposer listens and its ReadyFrame is gone, while a wait that has
\* neither fired nor timed out is still pending
C35_Witness ==
  /\ exposeState = "listening"
  /\ ~ReadyInFlight
  /\ wrapState = "waiting"
  /\ wrapGuard = "abort"
  /\ waitFor.outcome = Pending
  /\ injected = MaxInject
  /\ toCaller = <<>>

(***************************************************************************)
(* C36: after the caller API was disposed, the firing of the signal of a   *)
(* call that was pending at disposal posts no CancelFrame: the step leaves *)
(* the queue to the exposer and every promise as they are, so no           *)
(* CancelFrame for such a call ever travels and the exposer's invocation   *)
(* for it is never aborted by this caller.                                 *)
(***************************************************************************)
C36_NoCancelAfterDispose ==
  /\ [][\A id \in DOMAIN calls :
          (disposed /\ calls[id].abandoned /\ SignalFires(id)) =>
            /\ toExposer' = toExposer
            /\ pendingCalls' = pendingCalls
            /\ calls'[id].outcome = Pending
            /\ calls'[id].cancelPosts = calls[id].cancelPosts]_vars
  /\ [](\A id \in DOMAIN calls :
          calls[id].abandoned =>
            /\ calls[id].cancelPosts = 0
            /\ ~InQueue(toExposer, "cancel", id)
            /\ \A i \in InvocationsOf(id) : ~invocations[i].aborted)

\* the signal of a call abandoned by dispose has fired, and the handler
\* invoked for that call is still running, not aborted
C36_Witness ==
  /\ disposed
  /\ toExposer = <<>>
  /\ \E id \in DOMAIN calls :
       /\ calls[id].abandoned /\ calls[id].callPosted
       /\ calls[id].sig = "aborted" /\ ~calls[id].preAborted
       /\ \E i \in InvocationsOf(id) :
            invocations[i].st = "running" /\ ~invocations[i].aborted

\* the ResultFrames the exposer can post for an invocation of longTask:
\* its return value, the string of what it threw, or "aborted" when its
\* signal was triggered before it threw
LongTaskResults(id, aborted) ==
  { ResultOk(id, Str("done")) } \cup
  ( IF aborted THEN { ResultErr(id, "aborted") } ELSE { ResultErr(id, "Error: stopped") } )

\* in this step the handler of invocation i settles
HandlerSettles(i) == invocations[i].st = "running" /\ invocations'[i].st = "settled"

(***************************************************************************)
(* C37: a handler that is in flight when the exposer is disposed keeps     *)
(* running (the disposal settles and aborts no invocation), and in the     *)
(* step in which it settles afterwards the exposer posts the ResultFrame   *)
(* for its id on the endpoint, with the handler's result or error, as it   *)
(* does before disposal; a disposed exposer posts nothing else.            *)
(***************************************************************************)
C37_InFlightOutlivesDisposal ==
  /\ [][ExposerDisposal =>
          \A i \in DOMAIN invocations :
            invocations[i].st = "running" =>
              /\ invocations'[i].st = "running"
              /\ invocations'[i].aborted = invocations[i].aborted]_vars
  /\ [][\A i \in DOMAIN invocations :
          (exposeState = "disposed" /\ HandlerSettles(i)) =>
            /\ \E f \in LongTaskResults(invocations[i].id, invocations[i].aborted) :
                 toCaller' = Append(toCaller, f)
            /\ invocations'[i].posts = invocations[i].posts + 1]_vars
  /\ [][(exposeState = "disposed" /\ toCaller' # toCaller /\ Len(toCaller') > Len(toCaller))
          => \E i \in DOMAIN invocations : HandlerSettles(i)]_vars
  /\ [][\A i \in DOMAIN invocations :
          (exposeState = "listening" /\ exposeState' = "listening" /\ HandlerSettles(i)) =>
            \E f \in LongTaskResults(invocations[i].id, invocations[i].aborted) :
              toCaller' = Append(toCaller, f)]_vars

\* the exposer is disposed while a handler is in flight, and the step in
\* which that handler returns posts its ResultFrame
C37_Witness ==
  /\ exposeState = "disposed"
  /\ \E i \in Running :
       ENABLED (/\ HandlerSettle(i, [type |-> "return", v |-> Str("done")])
                /\ toCaller' = Append(toCaller, ResultOk(invocations[i].id, Str("done"))))

\* the exposer's listener accepts the CallFrame at the head of its queue
\* and invokes a handler for it
AcceptsCall ==
  /\ ExposerDelivery
  /\ ~Falsy(Head(toExposer))
  /\ KindIs(Head(toExposer), "call")
  /\ NameOf(Head(toExposer)) \in Handlers

\* the exposer's listener handles a CancelFrame for an id that has a record
CancelsRecorded ==
  /\ ExposerDelivery
  /\ ~Falsy(Head(toExposer))
  /\ KindIs(Head(toExposer), "cancel")
  /\ Truthy(CallIdOf(Head(toExposer)))
  /\ CallIdOf(Head(toExposer)).s \in DOMAIN controllerMap

(***************************************************************************)
(* C38: the exposer keeps one invocation record per id and posts one       *)
(* ResultFrame per accepted CallFrame.  When a CallFrame is accepted whose *)
(* id has a record, a new invocation starts and, while it runs, the record *)
(* is the new invocation's; a CancelFrame for the id triggers the recorded *)
(* invocation and no other; the settling of any invocation of the id       *)
(* removes the record; every invocation posts one ResultFrame with the id  *)
(* when it settles, so two accepted CallFrames yield two ResultFrames.     *)
(***************************************************************************)
C38_DuplicateCallIds ==
  /\ [](\A id \in DOMAIN controllerMap :
          /\ controllerMap[id] \in InvocationsOf(id)
          /\ \A i \in InvocationsOf(id) : i <= controllerMap[id]
          /\ invocations[controllerMap[id]].st = "running")
  /\ [][AcceptsCall =>
          LET id == IdOf(Head(toExposer))
              new == Len(invocations) + 1
          IN /\ Len(invocations') = new
             /\ invocations'[new].id = id
             /\ \A i \in DOMAIN invocations : invocations'[i] = invocations[i]
             /\ IF invocations'[new].st = "running"
                THEN controllerMap' = Put(controllerMap, id, new)
                ELSE /\ controllerMap' = Remove(controllerMap, id)
                     /\ toCaller' = Append(toCaller,
                          ResultOk(id, RunHandler(NameOf(Head(toExposer)),
                                                  ArgsOf(Head(toExposer))).v))]_vars
  /\ [][CancelsRecorded =>
          LET id == CallIdOf(Head(toExposer)).s
          IN /\ invocations'[controllerMap[id]].aborted
             /\ \A i \in DOMAIN invocations :
                  i # controllerMap[id] => invocations'[i] = invocations[i]
             /\ id \notin DOMAIN controllerMap']_vars
  /\ [][\A i \in DOMAIN invocations :
          HandlerSettles(i) =>
            /\ invocations[i].id \notin DOMAIN controllerMap'
            /\ \E f \in LongTaskResults(invocations[i].id, invocations[i].aborted) :
                 toCaller' = Append(toCaller, f)
            /\ \A j \in DOMAIN invocations : j # i => invocations'[j] = invocations[j]]_vars
  /\ [](\A i \in DOMAIN invocations :
          /\ invocations[i].st = "settled" <=> invocations[i].posts = 1
          /\ invocations[i].posts <= 1)

\* two invocations of longTask shared an id: the second took over the
\* record, a CancelFrame triggered the second only, and both have posted
\* their ResultFrame
C38_Witness ==
  \E i, j \in DOMAIN invocations :
    /\ i < j
    /\ invocations[i].id = invocations[j].id
    /\ invocations[i].name = "longTask" /\ invocations[j].name = "longTask"
    /\ ~invocations[i].aborted /\ invocations[j].aborted
    /\ invocations[i].posts = 1 /\ invocations[j].posts = 1
    /\ controllerMap = <<>>

\* the exceptions the caller API is specified to throw from a call
SpecifiedThrows == { "API has been disposed", PromiseArgMessage }

(***************************************************************************)
(* C40: genId always returns a non-empty string and never throws: on every *)
(* random source, also one whose crypto.getRandomValues throws, it yields  *)
(* an id, so that no call through the caller API fails because of the      *)
(* random source: the API throws nothing but what it is specified to       *)
(* throw.                                                                  *)
(***************************************************************************)
C40_GenIdNeverFails ==
  /\ \A m \in apiThrows : m \in SpecifiedThrows
  /\ \A id \in DOMAIN calls : id # ""

\* ---------------------------------------------------------------------------
\* on(endpoint, handler) by itself, as on_test.ts uses it: one subscription on a
\* started port, messages posted from the other port, and the detacher that
\* on() returns.
\* ---------------------------------------------------------------------------

MaxOnMessages == 4
MaxRemoves == 3

\* on(): a fresh AbortController, and the listener added with its signal
On ==
  /\ ~subscription.made
  /\ subscription' = [subscription EXCEPT !.made = TRUE, !.attached = TRUE]
  /\ UNCHANGED <<wrapState, wrapGuard, surface, disposed, pendingCalls, calls, nextId,
                 toExposer, toCaller, exposeState, controllerMap, invocations, injected,
                 wrapEarly, apiThrows, postBroken, messageErrors, waitFor>>

\* postMessage on the other port of the pair
OnPost ==
  /\ subscription.posted < MaxOnMessages
  /\ subscription' = [subscription EXCEPT !.posted = @ + 1, !.queued = @ + 1]
  /\ UNCHANGED <<wrapState, wrapGuard, surface, disposed, pendingCalls, calls, nextId,
                 toExposer, toCaller, exposeState, controllerMap, invocations, injected,
                 wrapEarly, apiThrows, postBroken, messageErrors, waitFor>>

\* one message event on the port: the listener, while it is attached, hands
\* ev.data to the handler
OnDispatch ==
  /\ subscription.queued > 0
  /\ subscription' = [subscription EXCEPT
         !.queued = @ - 1,
         !.received = IF subscription.attached THEN @ + 1 ELSE @]
  /\ UNCHANGED <<wrapState, wrapGuard, surface, disposed, pendingCalls, calls, nextId,
                 toExposer, toCaller, exposeState, controllerMap, invocations, injected,
                 wrapEarly, apiThrows, postBroken, messageErrors, waitFor>>

\* an endpoint whose addEventListener takes no notice of the signal
OnRemove_KeepsListener ==
  /\ subscription.made
  /\ subscription.removes < MaxRemoves
  /\ subscription' = [subscription EXCEPT !.removes = @ + 1, !.aborted = TRUE]
  /\ UNCHANGED <<wrapState, wrapGuard, surface, disposed, pendingCalls, calls, nextId,
                 toExposer, toCaller, exposeState, controllerMap, invocations, injected,
                 wrapEarly, apiThrows, postBroken, messageErrors, waitFor>>

\* the detacher, controller.abort(): the first call aborts the signal, which
\* removes the listener; on an aborted signal abort() returns at once. It
\* has no path that throws.
OnRemove ==
  /\ subscription.made
  /\ subscription.removes < MaxRemoves
  /\ subscription' = [subscription EXCEPT
         !.removes = @ + 1,
         !.aborted = TRUE,
         !.attached = IF subscription.aborted THEN @ ELSE FALSE]
  /\ UNCHANGED <<wrapState, wrapGuard, surface, disposed, pendingCalls, calls, nextId,
                 toExposer, toCaller, exposeState, controllerMap, invocations, injected,
                 wrapEarly, apiThrows, postBroken, messageErrors, waitFor>>

NextOn ==
  \/ On
  \/ OnPost
  \/ OnDispatch
  \/ OnRemove

SpecOn == Init /\ [][NextOn]_vars

\* the detacher has been called
Detached == subscription.removes > 0

\* a call of the detacher
DetacherCall == subscription'.removes = subscription.removes + 1

\* C39: once the detacher that on() returned has been called, the listener is
\* off the endpoint and the handler receives no further message, whatever is
\* dispatched; a further call of the detacher is always possible, changes
\* nothing but the count of calls, and does not throw.
C39_DetacherStopsDelivery ==
  /\ [](Detached => ~subscription.attached /\ ~subscription.threw)
  /\ [][Detached => subscription'.received = subscription.received]_vars
  /\ [][(Detached /\ DetacherCall) =>
          subscription' = [subscription EXCEPT !.removes = @ + 1]]_vars
  /\ [][DetacherCall =>
          /\ subscription'.received = subscription.received
          /\ subscription'.queued = subscription.queued]_vars

\* the test of on_test.ts and one call more: a message received, the detacher
\* called twice, a second message dispatched and not received
C39_Witness ==
  /\ subscription.removes >= 2
  /\ subscription.posted = 2
  /\ subscription.queued = 0
  /\ subscription.received = 1

====
